---- MODULE Spec2Model ----
(***************************************************************************)
(* Model of gwaihir: the metadata extractor and the config writer of       *)
(* gwaihir/controller/control_preprocess.py, and the data loader of        *)
(* gwaihir/plot.py.                                                        *)
(***************************************************************************)
EXTENDS Integers, Sequences, FiniteSets, TLC

\* extract_metadata: the CSV logs, the Dataset's attributes, the last call and
\* the one before it
VARIABLES files, ds, call, prev, ncalls
\* create_yaml_file: the directories on disk, the config files written, the
\* last call
VARIABLES dirs, cfg, ycall, nyaml

\* Plotter: the object (its data_array attribute), the last get_data_array
\* call
VARIABLES plotter, pcall, nplot
\* plot_2d_image: the number of open pyplot figures, the last call
VARIABLES figs, icall, nimage
\* ThreeDViewer: the widgets, the volume and the meshes of one viewer, the
\* last event handled
VARIABLES viewer, vcall, nview
\* initialize_preprocessing: the Dataset attributes, the buttons displayed and
\* the steps of the last run-preprocessing click
VARIABLES prep, nprep

metaVars == <<files, ds, call, prev, ncalls>>
yamlVars == <<dirs, cfg, ycall, nyaml>>
plotVars == <<plotter, pcall, nplot>>
imageVars == <<figs, icall, nimage>>
viewVars == <<viewer, vcall, nview>>
prepVars == <<prep, nprep>>

vars == <<files, ds, call, prev, ncalls, dirs, cfg, ycall, nyaml,
          plotter, pcall, nplot, figs, icall, nimage, viewer, vcall, nview,
          prep, nprep>>

(***************************************************************************)
(* Bounds                                                                  *)
(***************************************************************************)
\* number of extract_metadata calls explored
MaxCalls == 2
\* number of create_yaml_file calls explored
MaxYamlCalls == 1
\* number of keyword arguments of a create_yaml_file call
MaxKwargs == 2
\* number of directories in a destination path
MaxDepth == 2
\* number of get_data_array calls explored
MaxPlotCalls == 2
\* number of plot_2d_image calls explored
MaxImageCalls == 2
\* number of viewer events explored, the construction included
MaxViewEvents == 4
\* number of initialize_preprocessing calls and button clicks explored
MaxPrepEvents == 2

\* scan numbers used as inputs (one and two digits)
Scans == {7, 12}

(***************************************************************************)
(* Result file (PyTables) nodes under f.root.output                        *)
(***************************************************************************)
\* nodes read while building temp_df, in reading order
RequiredReads == <<"q", "q", "q", "qnorm", "dist_plane", "bragg_inplane",
                   "bragg_outofplane", "bragg_peak">>

RequiredCols == {"scan", "qx", "qy", "qz", "q_norm", "d_hkl",
                 "inplane_angle", "out_of_plane_angle", "bragg_peak"}

\* first optional block: node read, column written
OptionalDfSteps == << [node |-> "COM_rocking_curve", col |-> "COM_rocking_curve"],
                      [node |-> "interp_fwhm", col |-> "interp_fwhm"],
                      [node |-> "tilt_values", col |-> "tilt_angle"] >>

\* attributes mirrored on the Dataset before the optional block
RequiredDsAttrs == {"bragg_peak", "q", "qnorm", "dist_plane", "bragg_inplane",
                    "bragg_outofplane"}

\* second optional block: node read = attribute written, in order
OptionalDsSteps == <<"tilt_values", "rocking_curve", "interp_tilt",
                     "interp_curve", "detector_data_COM", "COM_rocking_curve",
                     "interp_fwhm">>

DsAttrs == RequiredDsAttrs \cup {OptionalDsSteps[i] : i \in 1..Len(OptionalDsSteps)}
              \cup {"tilt_angle"}

Range(s) == {s[i] : i \in 1..Len(s)}

AllNodes == Range(RequiredReads) \cup Range(OptionalDsSteps)

\* the sets of nodes a result file may hold: complete, one node missing, or
\* no angle-correction node at all
NodeSets == {AllNodes, AllNodes \ {"q"}, AllNodes \ {"bragg_peak"},
             AllNodes \ {"COM_rocking_curve"}, AllNodes \ {"interp_fwhm"},
             AllNodes \ {"tilt_values"}, AllNodes \ {"interp_curve"},
             Range(RequiredReads)}

(***************************************************************************)
(* SixS reader (bcdi ReadNxs3.DataSet): column written, attributes read    *)
(***************************************************************************)
SixsSteps == << [col |-> "x", needs |-> {"x"}],
                [col |-> "y", needs |-> {"y"}],
                [col |-> "z", needs |-> {"z"}],
                [col |-> "mu", needs |-> {"mu"}],
                [col |-> "delta", needs |-> {"delta"}],
                [col |-> "omega", needs |-> {"omega"}],
                [col |-> "gamma", needs |-> {"gamma"}],
                [col |-> "gamma-mu", needs |-> {"gamma", "mu"}],
                [col |-> "step_size", needs |-> {"mu"}],
                [col |-> "integration_time", needs |-> {"integration_time"}],
                [col |-> "steps", needs |-> {"integration_time"}] >>

ReaderAttrs == UNION {SixsSteps[i].needs : i \in 1..Len(SixsSteps)}

\* readers offered by the environment: complete, or lacking one attribute
ReaderSets == {ReaderAttrs, ReaderAttrs \ {"x"}, ReaderAttrs \ {"integration_time"}}

\* number of leading steps of a block that run before one raises
RECURSIVE PrefixLen(_, _)
PrefixLen(flags, i) ==
    IF i > Len(flags) THEN Len(flags)
    ELSE IF flags[i] THEN PrefixLen(flags, i + 1) ELSE i - 1

(***************************************************************************)
(* CSV log: pandas to_csv / read_csv of the scan key                       *)
(***************************************************************************)
DefaultPath == "cwd/metadata.csv"
UserPath == "user.csv"
Paths == {DefaultPath, UserPath}
NoPath == "None"

\* to_csv writes an integer as its decimal digits
RECURSIVE FormatInt(_)
FormatInt(n) == IF n < 10 THEN <<n>> ELSE Append(FormatInt(n \div 10), n % 10)

\* read_csv parses a column of digit strings to integers
RECURSIVE ParseInt(_)
ParseInt(d) == IF Len(d) = 0 THEN 0
               ELSE 10 * ParseInt(SubSeq(d, 1, Len(d) - 1)) + d[Len(d)]

\* a row of temp_df as written to the file
CsvRow(scan_nb, val, cols) == [scan |-> FormatInt(scan_nb), val |-> val, cols |-> cols]

Absent == [kind |-> "absent", rows |-> <<>>]
EmptyFile == [kind |-> "empty", rows |-> <<>>]
NoScanCol == [kind |-> "noscan", rows |-> <<>>]
Table(rows) == [kind |-> "table", rows |-> rows]

\* pd.read_csv(metadata_csv_file): the error it raises, or "none"
ReadCsvError(fs, csv) ==
    IF csv = NoPath THEN "ValueError"
    ELSE IF fs[csv].kind = "absent" THEN "FileNotFoundError"
    ELSE IF fs[csv].kind = "empty" THEN "ValueError"
    ELSE "none"

RECURSIVE SelectSeqBy(_, _)
SelectSeqBy(rows, scan_nb) ==
    IF Len(rows) = 0 THEN <<>>
    ELSE IF ParseInt(Head(rows).scan) = scan_nb
         THEN SelectSeqBy(Tail(rows), scan_nb)
         ELSE <<Head(rows)>> \o SelectSeqBy(Tail(rows), scan_nb)

\* mutant: the new row is appended without dropping the old one
Upsert_NoDrop(rows, scan_nb, row) == Append(rows, row)

\* df.drop(df[df['scan'] == scan_nb].index); pd.concat([df, temp_df])
Upsert(rows, scan_nb, row) == Append(SelectSeqBy(rows, scan_nb), row)

(***************************************************************************)
(* extract_metadata                                                        *)
(***************************************************************************)
\* gwaihir_dataset.beamline is "SIXS_2019": identity of two string objects
BeamlineIsSixs(bl) == bl.value = "SIXS_2019" /\ bl.sameObject

Beamlines == {[value |-> "ID01", sameObject |-> FALSE],
              [value |-> "SIXS_2019", sameObject |-> TRUE],
              [value |-> "SIXS_2019", sameObject |-> FALSE]}

\* the gwaihir_dataset argument and what the SixS reader finds: no dataset,
\* or a Dataset with its beamline, whether rd.DataSet opens the file, and the
\* attributes the reader then has
NoDataset == [withDs |-> FALSE, bl |-> [value |-> "none", sameObject |-> FALSE],
              readerOk |-> TRUE, reader |-> ReaderAttrs]
DatasetInputs ==
    {NoDataset}
    \cup {[withDs |-> TRUE, bl |-> b, readerOk |-> TRUE, reader |-> ReaderAttrs] :
             b \in {x \in Beamlines : ~BeamlineIsSixs(x)}}
    \cup {[withDs |-> TRUE, bl |-> b, readerOk |-> TRUE, reader |-> r] :
             b \in {x \in Beamlines : BeamlineIsSixs(x)}, r \in ReaderSets}
    \cup {[withDs |-> TRUE, bl |-> b, readerOk |-> FALSE, reader |-> ReaderAttrs] :
             b \in {x \in Beamlines : BeamlineIsSixs(x)}}

NoCall == [scan |-> 0, val |-> 0, csv |-> NoPath, present |-> {},
           withDs |-> FALSE, beamline |-> "none", sixsRan |-> FALSE,
           sixsAttrErr |-> FALSE, readErr |-> "none", raised |-> "none",
           wrote |-> NoPath, cols |-> {}, tiltRead |-> FALSE,
           tiltDefined |-> FALSE]

\* mutant: bragg_peak is not read while temp_df is built
RequiredBlock_SkipsBraggPeak(present) ==
    IF \A i \in 1..(Len(RequiredReads) - 1) : RequiredReads[i] \in present
    THEN [raised |-> "none", cols |-> RequiredCols]
    ELSE [raised |-> "NoSuchNodeError", cols |-> {}]

\* lines 108-129: temp_df is built from the required nodes; a missing node
\* raises NoSuchNodeError out of the function
RequiredBlock(present) ==
    IF \A i \in 1..Len(RequiredReads) : RequiredReads[i] \in present
    THEN [raised |-> "none", cols |-> RequiredCols]
    ELSE [raised |-> "NoSuchNodeError", cols |-> {}]

\* mutant: the NoSuchNodeError of a missing optional node is not caught
OptionalDfBlock_Propagates(present) ==
    LET flags == [i \in 1..Len(OptionalDfSteps) |-> OptionalDfSteps[i].node \in present]
        n == PrefixLen(flags, 1)
    IN  [raised |-> IF n < Len(OptionalDfSteps) THEN "NoSuchNodeError" ELSE "none",
         cols |-> {OptionalDfSteps[i].col : i \in 1..n},
         tiltDefined |-> n = Len(OptionalDfSteps)]

\* lines 131-144: the optional columns, up to the first missing node, whose
\* NoSuchNodeError is swallowed; tilt_angle is bound by the last step only
OptionalDfBlock(present) ==
    LET flags == [i \in 1..Len(OptionalDfSteps) |-> OptionalDfSteps[i].node \in present]
        n == PrefixLen(flags, 1)
    IN  [raised |-> "none",
         cols |-> {OptionalDfSteps[i].col : i \in 1..n},
         tiltDefined |-> n = Len(OptionalDfSteps)]

\* variant of MirrorDataset whose optional block starts with the read of
\* tilt_angle
MirrorDataset_TiltFirst(d, val, present, tiltDefined) ==
    LET flags == [i \in 1..Len(OptionalDsSteps) |-> OptionalDsSteps[i] \in present]
        n == PrefixLen(flags, 1)
        assigned == RequiredDsAttrs
                    \cup (IF tiltDefined
                          THEN {"tilt_angle"} \cup {OptionalDsSteps[i] : i \in 1..n}
                          ELSE {})
    IN  [ds |-> [a \in DsAttrs |-> IF a \in assigned THEN val ELSE d[a]],
         tiltRead |-> TRUE,
         raised |-> IF ~tiltDefined THEN "UnboundLocalError" ELSE "none"]

\* lines 147-169: the fields mirrored on the Dataset; the optional attributes
\* up to the first missing node; then the local tilt_angle is read
MirrorDataset(d, val, present, tiltDefined) ==
    LET flags == [i \in 1..Len(OptionalDsSteps) |-> OptionalDsSteps[i] \in present]
        n == PrefixLen(flags, 1)
        tiltRead == n = Len(OptionalDsSteps)
        assigned == RequiredDsAttrs \cup {OptionalDsSteps[i] : i \in 1..n}
                    \cup (IF tiltRead /\ tiltDefined THEN {"tilt_angle"} ELSE {})
    IN  [ds |-> [a \in DsAttrs |-> IF a \in assigned THEN val ELSE d[a]],
         tiltRead |-> tiltRead,
         raised |-> IF tiltRead /\ ~tiltDefined THEN "UnboundLocalError" ELSE "none"]

\* lines 171-188: the SixS columns; rd.DataSet is called outside the try, the
\* attribute reads inside it
SixsBlock(bl, readerOk, reader) ==
    LET flags == [i \in 1..Len(SixsSteps) |-> SixsSteps[i].needs \subseteq reader]
        n == PrefixLen(flags, 1)
    IN  IF ~BeamlineIsSixs(bl)
        THEN [ran |-> FALSE, raised |-> "none", cols |-> {}, attrErr |-> FALSE]
        ELSE IF ~readerOk
        THEN [ran |-> TRUE, raised |-> "OSError", cols |-> {}, attrErr |-> FALSE]
        ELSE [ran |-> TRUE, raised |-> "none",
              cols |-> {SixsSteps[i].col : i \in 1..n},
              attrErr |-> n < Len(SixsSteps)]

\* lines 203 and 212: hash_print is neither defined nor imported in the module
HashPrint == "NameError"

\* lines 190-212: the row is upserted in the log, or written alone to the
\* default path when read_csv raises FileNotFoundError or ValueError
SaveCsv(fs, csv, scan_nb, row) ==
    LET readErr == ReadCsvError(fs, csv)
    IN  IF readErr = "none"
        THEN IF fs[csv].kind = "noscan"
             THEN [fs |-> fs, readErr |-> readErr, raised |-> "KeyError",
                   wrote |-> NoPath]
             ELSE [fs |-> [fs EXCEPT ![csv] = Table(Upsert(fs[csv].rows, scan_nb, row))],
                   readErr |-> readErr, raised |-> HashPrint, wrote |-> csv]
        ELSE [fs |-> [fs EXCEPT ![DefaultPath] = Table(<<row>>)],
              readErr |-> readErr, raised |-> HashPrint, wrote |-> DefaultPath]

\* the whole call, as a record of its effects
ExtractMetadata(fs, d, scan_nb, val, present, withDs, bl, readerOk, reader, csv) ==
    LET base == [NoCall EXCEPT !.scan = scan_nb, !.val = val, !.csv = csv,
                               !.present = present, !.withDs = withDs,
                               !.beamline = IF withDs THEN bl.value ELSE "none"]
        req == RequiredBlock(present)
        opt == OptionalDfBlock(present)
        mir == MirrorDataset(d, val, present, opt.tiltDefined)
        sx == SixsBlock(bl, readerOk, reader)
        c0 == [base EXCEPT !.tiltDefined = opt.tiltDefined]
        c1 == IF withDs THEN [c0 EXCEPT !.tiltRead = mir.tiltRead] ELSE c0
        d1 == IF withDs THEN mir.ds ELSE d
        c2 == IF withDs THEN [c1 EXCEPT !.sixsRan = sx.ran, !.sixsAttrErr = sx.attrErr]
              ELSE c1
        cols == req.cols \cup opt.cols \cup (IF withDs THEN sx.cols ELSE {})
        sv == SaveCsv(fs, csv, scan_nb, CsvRow(scan_nb, val, cols))
    IN  IF req.raised # "none"
        THEN [fs |-> fs, ds |-> d, call |-> [base EXCEPT !.raised = req.raised]]
        ELSE IF opt.raised # "none"
        THEN [fs |-> fs, ds |-> d, call |-> [c0 EXCEPT !.raised = opt.raised]]
        ELSE IF withDs /\ mir.raised # "none"
        THEN [fs |-> fs, ds |-> d1, call |-> [c1 EXCEPT !.raised = mir.raised]]
        ELSE IF withDs /\ sx.raised # "none"
        THEN [fs |-> fs, ds |-> d1, call |-> [c2 EXCEPT !.raised = sx.raised]]
        ELSE [fs |-> sv.fs, ds |-> d1,
              call |-> [c2 EXCEPT !.readErr = sv.readErr, !.raised = sv.raised,
                                  !.wrote = sv.wrote, !.cols = cols]]

\* states of a log file before the first call
InitLogs == {Absent, EmptyFile, NoScanCol,
             Table(<<CsvRow(12, 0, RequiredCols), CsvRow(7, 0, RequiredCols)>>)}

MetaStart ==
    /\ files \in {[p \in Paths |-> IF p = UserPath THEN u ELSE d] :
                    u \in InitLogs, d \in {Absent, Table(<<CsvRow(12, 0, RequiredCols)>>)}}
    /\ ds = [a \in DsAttrs |-> 0]
    /\ call = NoCall
    /\ prev = [scan |-> 0, csv |-> NoPath, wrote |-> NoPath]
    /\ ncalls = 0

ExtractMetadataCall ==
    /\ ncalls < MaxCalls
    /\ \E scan_nb \in Scans, present \in NodeSets, g \in DatasetInputs,
          csv \in Paths \cup {NoPath} :
          \E r \in {ExtractMetadata(files, ds, scan_nb, ncalls + 1, present,
                                    g.withDs, g.bl, g.readerOk, g.reader, csv)} :
              /\ files' = r.fs
              /\ ds' = r.ds
              /\ call' = r.call
    /\ prev' = [scan |-> call.scan, csv |-> call.csv, wrote |-> call.wrote]
    /\ ncalls' = ncalls + 1
    /\ UNCHANGED <<yamlVars, plotVars, imageVars, viewVars, prepVars>>

(***************************************************************************)
(* create_yaml_file: strings are sequences of characters                   *)
(***************************************************************************)
Slash == "/"

RECURSIVE Join(_)
Join(ss) == IF Len(ss) = 0 THEN <<>> ELSE Head(ss) \o Join(Tail(ss))

\* str.endswith
EndsWith(s, suf) ==
    Len(s) >= Len(suf) /\ SubSeq(s, Len(s) - Len(suf) + 1, Len(s)) = suf

\* index of the last "/" of a path, 0 if none
LastSlash(s) ==
    IF \E i \in 1..Len(s) : s[i] = Slash
    THEN CHOOSE i \in 1..Len(s) : s[i] = Slash /\ \A j \in (i + 1)..Len(s) : s[j] # Slash
    ELSE 0

\* os.path.basename
Basename(s) == SubSeq(s, LastSlash(s) + 1, Len(s))

\* os.path.dirname
Dirname(s) == SubSeq(s, 1, LastSlash(s))

\* str.strip(chars): drops from both ends every character of the set chars
StripChars(s, chars) ==
    LET keep == {i \in 1..Len(s) : s[i] \notin chars}
        lo == IF keep = {} THEN 1 ELSE CHOOSE i \in keep : \A j \in keep : i <= j
        hi == IF keep = {} THEN 0 ELSE CHOOSE i \in keep : \A j \in keep : j <= i
    IN  SubSeq(s, lo, hi)

\* str.split("/"): the pieces between the slashes, empty ones included
RECURSIVE SplitSlash(_)
SplitSlash(s) ==
    IF \A i \in 1..Len(s) : s[i] # Slash THEN <<s>>
    ELSE LET k == CHOOSE i \in 1..Len(s) : s[i] = Slash /\ \A j \in 1..(i - 1) : s[j] # Slash
         IN  <<SubSeq(s, 1, k - 1)>> \o SplitSlash(SubSeq(s, k + 1, Len(s)))

\* the directory a path string names: absolute or relative to the working
\* directory, with its non-empty components
Norm(s) == [abs |-> Len(s) > 0 /\ s[1] = Slash,
            comps |-> SelectSeq(SplitSlash(s), LAMBDA c : c # <<>>)]

Root == [abs |-> TRUE, comps |-> <<>>]
Cwd == [abs |-> FALSE, comps |-> <<>>]
Parent(n) == [n EXCEPT !.comps = SubSeq(n.comps, 1, Len(n.comps) - 1)]

\* os.path.isdir
IsDir(fs, s) == Len(s) > 0 /\ Norm(s) \in fs.exist

\* os.mkdir(full_path): the error it raises, or "none"
MkdirError(fs, s) ==
    LET n == Norm(s)
    IN  IF n \in fs.exist THEN "FileExistsError"
        ELSE IF Parent(n) \notin fs.exist THEN "FileNotFoundError"
        ELSE IF Parent(n) \in fs.readonly THEN "PermissionError"
        ELSE "none"

\* lines 69-75: one mkdir per piece of the directory, outermost first;
\* FileExistsError and PermissionError are passed over
RECURSIVE MkdirLoop(_, _, _)
MkdirLoop(fs, pieces, full_path) ==
    IF Len(pieces) = 0 THEN [fs |-> fs, raised |-> "none"]
    ELSE LET p == full_path \o Head(pieces) \o <<Slash>>
             e == MkdirError(fs, p)
         IN  IF e = "none"
             THEN MkdirLoop([fs EXCEPT !.exist = @ \cup {Norm(p)}], Tail(pieces), p)
             ELSE IF e \in {"FileExistsError", "PermissionError"}
             THEN MkdirLoop(fs, Tail(pieces), p)
             ELSE [fs |-> fs, raised |-> e]

\* lines 64-65: file = os.path.basename(fname); directory = fname.strip(file)
DirectoryOf(fname) == StripChars(fname, Range(Basename(fname)))

(***************************************************************************)
(* Rendering of the keyword arguments (lines 44-62)                        *)
(***************************************************************************)
DQ == "\""
SQ == "'"

DigitChars == <<"0", "1", "2", "3", "4", "5", "6", "7", "8", "9">>

\* str() of a non-negative integer, as characters
FormatDigits(n) == [i \in 1..Len(FormatInt(n)) |-> DigitChars[FormatInt(n)[i] + 1]]

\* repr() of an element of a list: a string in single quotes, a number as
\* its digits, a boolean as True or False
ReprScalar(v) ==
    IF v.t = "str" THEN <<SQ>> \o v.s \o <<SQ>>
    ELSE IF v.t = "int" THEN FormatDigits(v.n)
    ELSE IF v.b THEN <<"True">> ELSE <<"False">>

\* str() of a Python list of scalars: "[e1, e2]"
RECURSIVE ReprItems(_)
ReprItems(e) ==
    IF Len(e) = 0 THEN <<>>
    ELSE IF Len(e) = 1 THEN ReprScalar(e[1])
    ELSE ReprScalar(e[1]) \o <<",", " ">> \o ReprItems(Tail(e))

ReprList(e) == <<"[">> \o ReprItems(e) \o <<"]">>

\* repr() of a one-dimensional ndarray: "array([1, 2])"
ReprArray(row) ==
    <<"array", "(">> \o ReprList([i \in 1..Len(row) |-> [t |-> "int", n |-> row[i]]])
                    \o <<")">>

\* str() of list(v) for an ndarray v: its elements along the first axis, a
\* number for a one-dimensional array and a sub-array otherwise
RECURSIVE ReprSubArrays(_)
ReprSubArrays(rows) ==
    IF Len(rows) = 1 THEN ReprArray(rows[1])
    ELSE ReprArray(rows[1]) \o <<",", " ">> \o ReprSubArrays(Tail(rows))

ListOfArray(v) ==
    IF v.ndim = 1
    THEN ReprList([i \in 1..Len(v.rows[1]) |-> [t |-> "int", n |-> v.rows[1][i]]])
    ELSE <<"[">> \o ReprSubArrays(v.rows) \o <<"]">>

\* the text after "key: " for one value
RenderValue(v) ==
    IF v.t = "str" THEN <<DQ>> \o v.s \o <<DQ>>
    ELSE IF v.t = "tuple"
    THEN IF Len(v.e) > 0 THEN ReprList(v.e) ELSE <<"None">>
    ELSE IF v.t = "array" THEN ListOfArray(v)
    ELSE IF v.t = "list"
    THEN IF Len(v.e) > 0 THEN ReprList(v.e) ELSE <<"None">>
    ELSE ReprScalar(v)

\* one line per keyword argument, in the order of kwargs.items()
ConfigLines(kwargs) ==
    [i \in 1..Len(kwargs) |-> <<kwargs[i].k, ":", " ">> \o RenderValue(kwargs[i].v)]

(***************************************************************************)
(* Re-parsing of a generated line by the YAML loader behind ConfigParser   *)
(***************************************************************************)
ParseError == [t |-> "error"]

DigitValue(c) == (CHOOSE i \in 1..Len(DigitChars) : DigitChars[i] = c) - 1

\* a plain or quoted YAML scalar
ParseScalar(tk) ==
    IF tk = <<"True">> THEN [t |-> "bool", b |-> TRUE]
    ELSE IF tk = <<"False">> THEN [t |-> "bool", b |-> FALSE]
    ELSE IF tk = <<"None">> THEN [t |-> "none"]
    ELSE IF Len(tk) > 0 /\ \A i \in 1..Len(tk) : tk[i] \in Range(DigitChars)
    THEN [t |-> "int", n |-> ParseInt([i \in 1..Len(tk) |-> DigitValue(tk[i])])]
    ELSE IF Len(tk) >= 2 /\ tk[1] \in {DQ, SQ} /\ tk[Len(tk)] = tk[1]
            /\ \A i \in 2..(Len(tk) - 1) : tk[i] # tk[1]
    THEN [t |-> "str", s |-> SubSeq(tk, 2, Len(tk) - 1)]
    ELSE ParseError

\* the entries of a flow sequence, separated by ", "
RECURSIVE SplitComma(_)
SplitComma(tk) ==
    IF \A i \in 1..Len(tk) : tk[i] # "," THEN <<tk>>
    ELSE LET k == CHOOSE i \in 1..Len(tk) : tk[i] = "," /\ \A j \in 1..(i - 1) : tk[j] # ","
             rest == SubSeq(tk, k + 1, Len(tk))
         IN  <<SubSeq(tk, 1, k - 1)>>
             \o SplitComma(IF Len(rest) > 0 /\ rest[1] = " " THEN Tail(rest) ELSE rest)

\* the value of a line: a flow sequence of scalars, or a scalar
ParseValue(tk) ==
    IF Len(tk) >= 2 /\ tk[1] = "[" /\ tk[Len(tk)] = "]"
    THEN LET items == SplitComma(SubSeq(tk, 2, Len(tk) - 1))
             vals == [i \in 1..Len(items) |-> ParseScalar(items[i])]
         IN  IF Len(tk) = 2 THEN [t |-> "list", e |-> <<>>]
             ELSE IF \E i \in 1..Len(vals) : vals[i] = ParseError THEN ParseError
             ELSE [t |-> "list", e |-> vals]
    ELSE ParseScalar(tk)

\* the key and the value of a line "key: value"
ParseLine(line) ==
    IF Len(line) >= 3 /\ line[2] = ":" /\ line[3] = " "
    THEN [k |-> line[1], v |-> ParseValue(SubSeq(line, 4, Len(line)))]
    ELSE [k |-> "", v |-> ParseError]

\* line 83: FileError is neither defined nor imported in the module
RaiseFileError == "NameError"

\* open(fname, "w"): the error it raises, or "none"
OpenError(fs, fname) ==
    LET parent == IF LastSlash(fname) = 0 THEN Cwd ELSE Norm(Dirname(fname))
    IN  IF parent \notin fs.exist THEN "FileNotFoundError"
        ELSE IF parent \in fs.readonly THEN "PermissionError"
        ELSE "none"

\* the whole call, as a record of its effects
CreateYamlFile(fs, written, fname, kwargs) ==
    LET config_file == ConfigLines(kwargs)
        directory == DirectoryOf(fname)
        made == IF IsDir(fs, directory) THEN [fs |-> fs, raised |-> "none"]
                ELSE MkdirLoop(fs, SplitSlash(directory), <<>>)
        base == [fname |-> fname, kwargs |-> kwargs, directory |-> directory,
                 raised |-> "none", wrote |-> FALSE]
    IN  IF made.raised # "none"
        THEN [fs |-> made.fs, cfg |-> written,
              call |-> [base EXCEPT !.raised = made.raised]]
        ELSE IF EndsWith(fname, <<".", "y", "a", "m", "l">>)
                \/ EndsWith(fname, <<".", "y", "m", "l">>)
        THEN IF OpenError(made.fs, fname) # "none"
             THEN [fs |-> made.fs, cfg |-> written,
                   call |-> [base EXCEPT !.raised = OpenError(made.fs, fname)]]
             ELSE [fs |-> made.fs,
                   cfg |-> {f \in written : f.fname # fname}
                             \cup {[fname |-> fname, lines |-> config_file]},
                   call |-> [base EXCEPT !.wrote = TRUE]]
        ELSE [fs |-> made.fs, cfg |-> written,
              call |-> [base EXCEPT !.raised = RaiseFileError]]

\* destination paths: relative or absolute, up to MaxDepth directories
DirNames == {<<"d">>, <<"m", "y">>, <<"m", "d">>}
FileNames == {<<"m", ".", "y", "m", "l">>, <<"c", ".", "y", "a", "m", "l">>,
              <<"m", ".", "t", "x", "t">>}
DirSeqs == UNION {[1..n -> DirNames] : n \in 0..MaxDepth}
PathOf(abs, dseq, file) ==
    (IF abs THEN <<Slash>> ELSE <<>>)
    \o Join([i \in 1..Len(dseq) |-> dseq[i] \o <<Slash>>]) \o file
Fnames == {PathOf(abs, dseq, file) : abs \in BOOLEAN, dseq \in DirSeqs, file \in FileNames}

\* parameter values of the supported types
StrValues == {[t |-> "str", s |-> s] : s \in {<<>>, <<"a">>, <<"a", DQ, "b">>}}
IntValues == {[t |-> "int", n |-> n] : n \in {7, 12}}
BoolValues == {[t |-> "bool", b |-> b] : b \in BOOLEAN}
ElemSeqs == {<<>>, <<[t |-> "int", n |-> 7]>>,
             <<[t |-> "int", n |-> 7], [t |-> "str", s |-> <<"a">>]>>}
ListValues == {[t |-> "list", e |-> e] : e \in ElemSeqs}
TupleValues == {[t |-> "tuple", e |-> e] : e \in ElemSeqs}
ArrayValues == {[t |-> "array", ndim |-> 1, rows |-> << <<7, 12>> >>],
                [t |-> "array", ndim |-> 2, rows |-> << <<7, 12>>, <<1, 2>> >>]}
Values == StrValues \cup IntValues \cup BoolValues \cup ListValues
            \cup TupleValues \cup ArrayValues

Keys == <<"a", "b">>
\* keyword arguments: distinct names, in the order given
KwargSets ==
    UNION {{[i \in 1..n |-> [k |-> Keys[IF flip THEN n + 1 - i ELSE i], v |-> vs[i]]] :
              vs \in [1..n -> Values], flip \in BOOLEAN} : n \in 0..MaxKwargs}

NoYamlCall == [fname |-> <<>>, kwargs |-> <<>>, directory |-> <<>>,
               raised |-> "none", wrote |-> FALSE]

\* the disk before the call: the root and the working directory exist; "d"
\* may exist; the working directory may be read-only
InitDisks == {[exist |-> {Root, Cwd} \cup e, readonly |-> r] :
                e \in {{}, {[abs |-> FALSE, comps |-> << <<"d">> >>]}},
                r \in {{}, {Cwd}}}

YamlStart ==
    /\ dirs \in InitDisks
    /\ cfg = {}
    /\ ycall = NoYamlCall
    /\ nyaml = 0

CreateYamlFileCall ==
    /\ nyaml < MaxYamlCalls
    /\ \E fname \in Fnames, kwargs \in KwargSets :
          \E r \in {CreateYamlFile(dirs, cfg, fname, kwargs)} :
              /\ dirs' = r.fs
              /\ cfg' = r.cfg
              /\ ycall' = r.call
    /\ nyaml' = nyaml + 1
    /\ UNCHANGED <<metaVars, plotVars, imageVars, viewVars, prepVars>>

(***************************************************************************)
(* Plotter.get_data_array (plot.py)                                        *)
(***************************************************************************)
\* an array is its shape and, for every index, the index of the file's
\* dataset the element comes from
Indices(shape) ==
    {ix \in [1..Len(shape) -> 0..3] : \A k \in 1..Len(shape) : ix[k] < shape[k]}

FileArray(shape) == [shape |-> shape, at |-> [ix \in Indices(shape) |-> ix]]

NoArray == [shape |-> <<>>, at |-> <<>>]

\* a[0]
TakeFirst(a) ==
    [shape |-> Tail(a.shape),
     at |-> [ix \in Indices(Tail(a.shape)) |-> a.at[<<0>> \o ix]]]

Swap02(s) == [k \in 1..Len(s) |-> IF k = 1 THEN s[3] ELSE IF k = 3 THEN s[1] ELSE s[k]]

\* variant of SwapAxes02 that exchanges axes 0 and 1
SwapAxes02_Axes01(a) ==
    LET sw(s) == [k \in 1..Len(s) |->
                    IF k = 1 THEN s[2] ELSE IF k = 2 THEN s[1] ELSE s[k]]
    IN  [shape |-> sw(a.shape),
         at |-> [ix \in Indices(sw(a.shape)) |-> a.at[sw(ix)]]]

\* np.swapaxes(a, 0, 2), for an array of at least three axes
SwapAxes02(a) ==
    [shape |-> Swap02(a.shape),
     at |-> [ix \in Indices(Swap02(a.shape)) |-> a.at[Swap02(ix)]]]

Ndim(a) == Len(a.shape)

Exts == {".npy", ".cxi", ".h5", ".npz", ".txt"}
Modes == {"2D", "slices", "3D", "False"}
Shapes == {<<3>>, <<2, 3>>, <<2, 3, 4>>, <<1, 2, 3, 4>>}

\* what the file system holds at self.filename
FileStates(ext) ==
    {[status |-> "ok", shape |-> sh] : sh \in Shapes}
    \cup {[status |-> st, shape |-> <<>>] :
            st \in {"missing", "wrongformat"}
                   \cup (IF ext \in {".cxi", ".h5"} THEN {"nodataset"} ELSE {})}

\* lines 57-88: the loaders of .npy, .cxi and .h5; a failure is caught and a
\* message printed, and data_array keeps what was assigned before it
LoadDirect(ext, file, old) ==
    IF file.status # "ok"
    THEN [data |-> old, set |-> FALSE,
          msgs |-> {IF ext = ".npy" THEN "could_not_load" ELSE "hdf5_hint"}]
    ELSE IF ext \in {".npy", ".cxi"}
    THEN [data |-> FileArray(file.shape), set |-> TRUE, msgs |-> {}]
    ELSE LET raw == FileArray(file.shape)
             a3 == IF Ndim(raw) = 4 THEN TakeFirst(raw) ELSE raw
         IN  IF Ndim(a3) < 3
             THEN [data |-> a3, set |-> TRUE, msgs |-> {"hdf5_hint"}]
             ELSE [data |-> SwapAxes02(a3), set |-> TRUE, msgs |-> {}]

\* plot_3d_slices on an array that is not of rank 3: indexing with three
\* indices fails below rank 3; above it the slices are not images unless
\* their last axis has 3 or 4 entries
SlicesError(a) ==
    IF Ndim(a) < 3 THEN "IndexError"
    ELSE IF Ndim(a) > 3 /\ a.shape[Len(a.shape)] \notin {3, 4} THEN "TypeError"
    ELSE "none"

\* variant of Dispatch that starts the viewer for mode "3D" whatever the rank
Dispatch_AnyRank(mode, hasData, a) ==
    IF ~hasData
    THEN [view |-> "none", raised |-> "AttributeError", msgs |-> {}]
    ELSE IF mode = "2D"
    THEN [view |-> "plot_data", raised |-> "none", msgs |-> {}]
    ELSE IF mode = "slices"
    THEN [view |-> "plot_3d_slices", raised |-> SlicesError(a), msgs |-> {}]
    ELSE IF mode = "3D"
    THEN [view |-> "ThreeDViewer", raised |-> "none", msgs |-> {}]
    ELSE [view |-> "none", raised |-> "none", msgs |-> {"summary"}]

\* lines 90-108 and 127-145: the dispatch on self.plot; hasData tells whether
\* the attribute data_array exists; view is the function the branch calls,
\* raised what that call raises
Dispatch(mode, hasData, a) ==
    IF ~hasData
    THEN [view |-> "none", raised |-> "AttributeError", msgs |-> {}]
    ELSE IF mode = "2D"
    THEN [view |-> "plot_data", raised |-> "none", msgs |-> {}]
    ELSE IF mode = "slices"
    THEN [view |-> "plot_3d_slices", raised |-> SlicesError(a), msgs |-> {}]
    ELSE IF mode = "3D" /\ Ndim(a) = 3
    THEN [view |-> "ThreeDViewer", raised |-> "none", msgs |-> {}]
    ELSE [view |-> "none", raised |-> "none", msgs |-> {"summary"}]

\* the whole call on an object whose data_array is old (hasOld: it exists)
GetDataArray(ext, file, mode, hasOld, old) ==
    LET base == [ext |-> ext, status |-> file.status, shape |-> file.shape,
                 mode |-> mode, ndim |-> Ndim(old),
                 raised |-> "none", msgs |-> {}, view |-> "none", loaded |-> FALSE]
    IN  IF ext \in {".npy", ".h5", ".cxi"}
        THEN LET ld == LoadDirect(ext, file, old)
                 has == hasOld \/ ld.set
                 dp == Dispatch(mode, has, ld.data)
             IN  [hasData |-> has, data |-> ld.data,
                  call |-> [base EXCEPT !.raised = dp.raised, !.view = dp.view,
                                        !.ndim = Ndim(ld.data),
                                        !.msgs = ld.msgs \cup dp.msgs,
                                        !.loaded = file.status = "ok"]]
        ELSE IF ext = ".npz"
        THEN IF file.status # "ok"
             THEN [hasData |-> hasOld, data |-> old,
                   call |-> [base EXCEPT !.raised =
                               IF file.status = "missing" THEN "FileNotFoundError"
                               ELSE "ValueError"]]
             ELSE LET dp == Dispatch(mode, TRUE, FileArray(file.shape))
                  IN  [hasData |-> TRUE, data |-> FileArray(file.shape),
                       call |-> [base EXCEPT !.raised = dp.raised, !.view = dp.view,
                                             !.ndim = Len(file.shape),
                                             !.msgs = dp.msgs, !.loaded = TRUE]]
        ELSE [hasData |-> hasOld, data |-> old, call |-> base]

NoPlotCall == [ext |-> "", status |-> "", shape |-> <<>>, mode |-> "", ndim |-> 0,
               raised |-> "none",
               msgs |-> {}, view |-> "none", loaded |-> FALSE]

NoPlotter == [exists |-> FALSE, ext |-> "", mode |-> "", hasData |-> FALSE,
              data |-> NoArray]

PlotStart ==
    /\ plotter = NoPlotter
    /\ pcall = NoPlotCall
    /\ nplot = 0

\* Plotter(filename, plot): __init__ calls get_data_array on the new object,
\* which exists afterwards only if the call returns
PlotterInit ==
    /\ nplot < MaxPlotCalls
    /\ \E ext \in Exts, mode \in Modes : \E file \in FileStates(ext) :
          \E r \in {GetDataArray(ext, file, mode, FALSE, NoArray)} :
              /\ plotter' = IF r.call.raised = "none"
                            THEN [exists |-> TRUE, ext |-> ext, mode |-> mode,
                                  hasData |-> r.hasData, data |-> r.data]
                            ELSE NoPlotter
              /\ pcall' = r.call
    /\ nplot' = nplot + 1
    /\ UNCHANGED <<metaVars, yamlVars, imageVars, viewVars, prepVars>>

\* get_data_array called again on an existing object, whatever the file has
\* become
PlotterReload ==
    /\ nplot < MaxPlotCalls
    /\ plotter.exists
    /\ \E file \in FileStates(plotter.ext) :
          \E r \in {GetDataArray(plotter.ext, file, plotter.mode,
                                  plotter.hasData, plotter.data)} :
              /\ plotter' = [plotter EXCEPT !.hasData = r.hasData, !.data = r.data]
              /\ pcall' = r.call
    /\ nplot' = nplot + 1
    /\ UNCHANGED <<metaVars, yamlVars, imageVars, viewVars, prepVars>>

(***************************************************************************)
(* plot_2d_image (plot.py)                                                 *)
(***************************************************************************)
\* what the array handed to imshow holds: its dtype, whether any value is
\* positive, whether its shape is that of an image
ImageKinds == {"real_positive", "real_nonpositive", "complex_nonzero",
               "complex_zero", "real_badshape"}

\* np.abs(two_d_array)
Magnitude(kind) ==
    IF kind = "complex_nonzero" THEN "real_positive"
    ELSE IF kind = "complex_zero" THEN "real_nonpositive"
    ELSE kind

\* ax.imshow(..., norm=...): what the drawing library raises
Imshow(kind, log) ==
    IF kind \in {"complex_nonzero", "complex_zero", "real_badshape"} THEN "TypeError"
    ELSE IF log /\ kind = "real_nonpositive" THEN "ValueError"
    ELSE "none"

\* one drawing attempt (lines 735-750, and again 755-770): imshow on ax,
\* then the colorbar on fig; hasFig and hasAx tell whether the two objects
\* at hand are not None
Draw(kind, log, hasFig, hasAx) ==
    IF ~hasAx THEN "AttributeError"
    ELSE IF Imshow(kind, log) # "none" THEN Imshow(kind, log)
    ELSE IF ~hasFig THEN "AttributeError"
    ELSE "none"

\* lines 729-781 with `open` pyplot figures: a figure is created at line
\* 730 when neither fig nor ax is given, otherwise the caller's figure is
\* the one open; the retry of lines 753-770 runs in the handler of the
\* first TypeError, outside the try block
Plot2dImage(kind, log, fig, ax, open) ==
    LET own == ~fig /\ ~ax
        first == Draw(kind, log, fig \/ own, ax \/ own)
        retry == Draw(Magnitude(kind), log, fig \/ own, ax \/ own)
        base == [kind |-> kind, log |-> log, fig |-> fig, ax |-> ax,
                 first |-> first, retry |-> "none",
                 attempts |-> 1, raised |-> "none", msgs |-> {}, drawn |-> "none"]
    IN  IF first = "none"
        THEN [figs |-> open + 1, call |-> [base EXCEPT !.drawn = "array"]]
        ELSE IF first = "TypeError"
        THEN [figs |-> open + 1,
              call |-> [base EXCEPT !.attempts = 2, !.retry = retry,
                                    !.msgs = {"using_complex"},
                                    !.raised = retry,
                                    !.drawn = IF retry = "none" THEN "magnitude"
                                              ELSE "none"]]
        ELSE IF first = "ValueError"
        THEN [figs |-> open,
              call |-> [base EXCEPT !.msgs = IF log THEN {"log_warning"} ELSE {}]]
        ELSE [figs |-> open, call |-> [base EXCEPT !.raised = first]]

NoImageCall == [kind |-> "", log |-> FALSE, fig |-> FALSE, ax |-> FALSE,
                first |-> "none", retry |-> "none",
                attempts |-> 0, raised |-> "none", msgs |-> {}, drawn |-> "none"]

ImageStart ==
    /\ figs = 0
    /\ icall = NoImageCall
    /\ nimage = 0

\* plot_2d_image(two_d_array, fig, ax, log)
Plot2dImageCall ==
    /\ nimage < MaxImageCalls
    /\ \E kind \in ImageKinds, log, fig, ax \in BOOLEAN :
          \E r \in {Plot2dImage(kind, log, fig, ax, figs)} :
              /\ figs' = r.figs
              /\ icall' = r.call
    /\ nimage' = nimage + 1
    /\ UNCHANGED <<metaVars, yamlVars, plotVars, viewVars, prepVars>>

(***************************************************************************)
(* ThreeDViewer (plot.py): numbers and volumes                             *)
(*                                                                         *)
(* A float is an integer number of tenths; NaN is a value of its own, and  *)
(* every comparison with it is false.                                      *)
(***************************************************************************)
NaN == -(10 ^ 6)

Lt(a, b) == a # NaN /\ b # NaN /\ a < b

\* the builtins min(a, b) and max(a, b): a unless b is strictly beyond it
PyMin(a, b) == IF Lt(b, a) THEN b ELSE a
PyMax(a, b) == IF Lt(a, b) THEN b ELSE a

\* 10 ** t (line 467), for t >= -1.0
Pow10(t) ==
    LET mantissa == <<10, 13, 16, 20, 25, 32, 40, 50, 63, 79>>
    IN  IF t = NaN THEN NaN
        ELSE IF t < 0 THEN PyMax(1, (mantissa[(t % 10) + 1] + 5) \div 10)
        ELSE mantissa[(t % 10) + 1] * (10 ^ (t \div 10))

\* np.log10(v) (lines 470 and 471); log10(0) is -inf, here below every
\* slider bound
Log10(v) ==
    IF v = NaN THEN NaN
    ELSE IF v <= 0 THEN -1000
    ELSE CHOOSE t \in -10..70 :
            /\ Pow10(t) >= v
            /\ \A t2 \in -10..(t - 1) : Pow10(t2) < v

\* the grid points <<z, y, x>> of a volume of shape (2, 2, 2)
Voxels == {<<z, y, x>> : z \in 0..1, y \in 0..1, x \in 0..1}

\* the arrays handed to the viewer: a voxel is a magnitude and a phase in
\* quarter turns (0 and 2 for a positive and a negative real number)
VolumeNames == {"complex", "real", "nan"}

Sample(name) ==
    [v \in Voxels |->
        IF name = "complex"
        THEN [mag |-> 10 * (v[1] + v[2] + 2 * v[3]), ph |-> (v[1] + 2 * v[2]) % 4]
        ELSE IF name = "nan" /\ v = <<0, 0, 0>>
        THEN [mag |-> NaN, ph |-> 0]
        ELSE [mag |-> IF v[3] = 0 THEN (IF v[1] + v[2] = 0 THEN 0 ELSE 10)
                      ELSE (IF v[1] + v[2] < 2 THEN 100 ELSE 1000),
              ph |-> 0]]

\* np.log10(np.maximum(0.1, abs(d))) (line 470); np.maximum keeps a NaN
LogVolume(a) ==
    [v \in Voxels |->
        LET l == IF a[v].mag = NaN THEN NaN ELSE Log10(PyMax(1, a[v].mag))
        IN  IF l = NaN THEN [mag |-> NaN, ph |-> 0]
            ELSE IF l < 0 THEN [mag |-> -l, ph |-> 2]
            ELSE [mag |-> l, ph |-> 0]]

\* the array self.d stands for: a sample, after `logs` applications of
\* line 470
RECURSIVE Val(_)
Val(d) ==
    IF d.logs = 0 THEN Sample(d.name)
    ELSE LogVolume(Val([d EXCEPT !.logs = d.logs - 1]))

IsComplex(d) == d.name = "complex" /\ d.logs = 0

\* abs(a).max() (lines 491, 496, 497)
MaxAbs(a) ==
    IF \E v \in Voxels : a[v].mag = NaN THEN NaN
    ELSE CHOOSE m \in {a[v].mag : v \in Voxels} : \A v \in Voxels : a[v].mag <= m

(***************************************************************************)
(* ThreeDViewer: the widgets                                               *)
(***************************************************************************)
\* FloatSlider (threshold, minimum 0): assignment of max and of value, with
\* the validation of the widget library
SliderSetMax(sl, new) ==
    IF Lt(new, 0) THEN [err |-> "TraitError", s |-> sl]
    ELSE [err |-> "none",
          s |-> [sl EXCEPT !.max = new,
                           !.value = IF Lt(new, sl.value) THEN new ELSE sl.value]]

SliderSetValue(sl, new) ==
    [sl EXCEPT !.value = IF Lt(new, 0) \/ Lt(sl.max, new)
                         THEN PyMin(PyMax(new, 0), sl.max) ELSE new]

\* FloatRangeSlider (colormap_range, clipdist): assignment of one bound and
\* of the value, with the validation of the widget library
RangeSetBound(r, which, new) ==
    IF which = "max"
    THEN IF Lt(new, r.min) THEN [err |-> "TraitError", s |-> r]
         ELSE [err |-> "none",
               s |-> [r EXCEPT !.max = new, !.lo = PyMin(new, r.lo),
                               !.hi = PyMin(new, r.hi)]]
    ELSE IF Lt(r.max, new) THEN [err |-> "TraitError", s |-> r]
         ELSE [err |-> "none",
               s |-> [r EXCEPT !.min = new, !.lo = PyMax(new, r.lo),
                               !.hi = PyMax(new, r.hi)]]

RangeSetValue(r, lo, hi) ==
    [r EXCEPT !.lo = PyMax(PyMin(lo, r.max), r.min),
              !.hi = PyMax(PyMin(hi, r.max), r.min)]

NoVolume == [name |-> "", logs |-> 0]

Controls == {"threshold", "colormap", "colormap_range", "clipx", "clipy",
             "clipz", "clipdist", "toggle_plane"}

\* lines 190-262: the widgets as created, every control observed
NewViewer ==
    [d |-> NoVolume, d0 |-> NoVolume,
     threshold |-> [value |-> 50, max |-> 200],
     mode |-> "Phase", options |-> {"Abs", "Phase"},
     colormap |-> "Jet",
     range |-> [lo |-> 200, hi |-> 800, min |-> 0, max |-> 1000],
     plane |-> FALSE,
     clip |-> [x |-> 1, y |-> 1, z |-> 1],
     dist |-> [lo |-> 0, hi |-> 1000, min |-> 0, max |-> 1000],
     obs |-> Controls,
     meshes |-> <<>>,
     rotate |-> FALSE,
     pcb |-> [made |-> FALSE, created |-> 0, running |-> FALSE, timeouts |-> 0],
     camera |-> 0]

(***************************************************************************)
(* ThreeDViewer.on_update_plot                                             *)
(***************************************************************************)
\* lines 331-335: the clip normal and its norm
ClipNormal(clip) ==
    LET s == clip.x * clip.x + clip.y * clip.y + clip.z * clip.z
    IN  IF s = 0 THEN [x |-> 1, y |-> clip.y, z |-> clip.z, u |-> 10]
        ELSE [x |-> clip.x, y |-> clip.y, z |-> clip.z, u |-> <<10, 14, 17>>[s]]

\* (x * ux + y * uy + z * uz) / u at grid point v = <<z, y, x>>
Projection(n, v) == (100 * (v[3] * n.x + v[2] * n.y + v[1] * n.z)) \div n.u

\* lines 342-344: tmpmin and tmpmax; the reductions fail on an empty
\* selection
ClipRange(a, level, n) ==
    LET sel == {v \in Voxels : a[v].mag # NaN /\ level # NaN /\ a[v].mag >= level}
        pr == {Projection(n, v) : v \in sel}
    IN  IF sel = {} THEN [err |-> "ValueError", min |-> 0, max |-> 0]
        ELSE [err |-> "none",
              min |-> (CHOOSE m \in pr : \A q \in pr : m <= q) - 10,
              max |-> (CHOOSE m \in pr : \A q \in pr : q <= m) + 10]

\* the two assignments of a bound of clipdist, in the given order: the
\* error of the first that the widget rejects, the slider between the two
\* assignments and the slider after them
AssignBounds(dist, order, tmpmin, tmpmax) ==
    LET new(which) == IF which = "max" THEN tmpmax ELSE tmpmin
        one == RangeSetBound(dist, order[1], new(order[1]))
        two == RangeSetBound(one.s, order[2], new(order[2]))
    IN  IF one.err # "none" THEN [err |-> one.err, mid |-> one.s, s |-> one.s]
        ELSE [err |-> two.err, mid |-> one.s, s |-> two.s]

\* variant of SetClipBounds that always assigns the minimum first
SetClipBounds_MinFirst(dist, tmpmin, tmpmax) ==
    AssignBounds(dist, <<"min", "max">>, tmpmin, tmpmax)

\* lines 345-350: the two bounds of clipdist, assigned in the order the
\* code chooses
SetClipBounds(dist, tmpmin, tmpmax) ==
    AssignBounds(dist, IF tmpmax > dist.min THEN <<"max", "min">>
                       ELSE <<"min", "max">>, tmpmin, tmpmax)

\* variant of Masked that applies the clip mask whatever the toggle
Masked_AlwaysClips(a, plane, n, dist) ==
    [v \in Voxels |->
        IF a[v].mag = NaN THEN NaN
        ELSE IF Projection(n, v) > dist.lo /\ Projection(n, v) < dist.hi
        THEN a[v].mag ELSE 0]

\* lines 353-354 and 363, times abs(self.d): the array handed to
\* marching_cubes
Masked(a, plane, n, dist) ==
    [v \in Voxels |->
        IF ~plane THEN a[v].mag
        ELSE IF a[v].mag = NaN THEN NaN
        ELSE IF Projection(n, v) > dist.lo /\ Projection(n, v) < dist.hi
        THEN a[v].mag ELSE 0]

\* marching_cubes(volume, level): the level must lie within the range of
\* the volume and a surface must exist; a vertex lies on a grid edge
\* between a point above the level and a neighbour that is not, at the
\* place the two values give; the faces follow from the points above
MarchingCubes(m, level) ==
    LET nan == \E v \in Voxels : m[v] = NaN
        lo == IF nan THEN NaN ELSE CHOOSE x \in {m[v] : v \in Voxels} :
                                       \A v \in Voxels : x <= m[v]
        hi == IF nan THEN NaN ELSE CHOOSE x \in {m[v] : v \in Voxels} :
                                       \A v \in Voxels : m[v] <= x
        above == {v \in Voxels : Lt(level, m[v])}
        near(p, q) == Cardinality({k \in 1..3 : p[k] # q[k]}) = 1
        verts == {[in |-> e[1], out |-> e[2], vin |-> m[e[1]], vout |-> m[e[2]],
                   level |-> level] :
                    e \in {f \in above \X (Voxels \ above) : near(f[1], f[2])}}
    IN  IF Lt(level, lo) \/ Lt(hi, level)
        THEN [err |-> "ValueError", verts |-> {}, faces |-> {}]
        ELSE IF verts = {}
        THEN [err |-> "RuntimeError", verts |-> {}, faces |-> {}]
        ELSE [err |-> "none", verts |-> verts, faces |-> above]

\* lines 367-388: the colour of every vertex, from the values of self.d
\* interpolated at it (self.rgi) and the colouring controls
Colours(a, verts, w) ==
    [v \in verts |->
        IF w.mode = "Phase"
        THEN [map |-> "phase", vmin |-> 0, vmax |-> 0, of |-> <<a[v.in], a[v.out]>>]
        ELSE [map |-> w.colormap, vmin |-> w.range.lo, vmax |-> w.range.hi,
              of |-> <<[a[v.in] EXCEPT !.ph = 0], [a[v.out] EXCEPT !.ph = 0]>>]]

\* variant of ReplaceMeshes that keeps the meshes already in the figure
ReplaceMeshes_Accumulates(meshes, mesh) == Append(meshes, mesh)

\* lines 390-391: plot_trisurf adds the new mesh to the figure, then the
\* list of the figure is assigned the new mesh alone
ReplaceMeshes(meshes, mesh) ==
    LET added == Append(meshes, mesh)
    IN  <<added[Len(added)]>>

\* on_update_plot for a change of value (or called with no argument): what
\* the viewer becomes, how many times marching_cubes ran, the exception
\* that left the handler and the exceptions printed
OnUpdatePlot(w) ==
    LET a == Val(w.d)
        clips == <<"clipx", "clipy", "clipz", "clipdist">>
        \* lines 317-323: the first unobserve of a handler that is not
        \* registered raises, and the bare except skips the others
        removed == {clips[i] : i \in {j \in 1..4 : \A k \in 1..j : clips[k] \in w.obs}}
        n == ClipNormal(w.clip)
        cr == ClipRange(a, w.threshold.value, n)
        sb == SetClipBounds(w.dist, cr.min, cr.max)
        clipErr == IF ~w.plane THEN "none"
                   ELSE IF cr.err # "none" THEN cr.err ELSE sb.err
        dist1 == IF w.plane /\ cr.err = "none" THEN sb.s ELSE w.dist
        mc == MarchingCubes(Masked(a, w.plane, n, dist1), w.threshold.value)
        mesh == [verts |-> mc.verts, faces |-> mc.faces,
                 color |-> Colours(a, mc.verts, w)]
        w1 == [w EXCEPT !.obs = w.obs \ removed, !.dist = dist1]
    IN  IF clipErr # "none"
        THEN [w |-> w1, extractions |-> 0, setdata |-> 0, raised |-> clipErr,
              printed |-> {}]
        ELSE [w |-> [w1 EXCEPT !.obs = @ \cup {clips[i] : i \in 1..4},
                               !.meshes = IF mc.err = "none" THEN ReplaceMeshes(@, mesh)
                                           ELSE @],
              extractions |-> 1, setdata |-> 0, raised |-> "none",
              printed |-> {mc.err} \ {"none"}]

(***************************************************************************)
(* ThreeDViewer.set_data and on_change_type                                *)
(***************************************************************************)
\* set_data(d, threshold): hasThr tells whether a threshold is passed
SetData(w, d, hasThr, thr) ==
    LET top == MaxAbs(Val(d))
        t1 == SliderSetMax(w.threshold, top)
        t2 == SliderSetValue(t1.s, IF hasThr THEN thr
                                   ELSE IF top = NaN THEN NaN ELSE top \div 2)
        r1 == RangeSetBound(w.range, "max", top)
        r2 == RangeSetValue(r1.s, 0, top)
        w1 == [w EXCEPT !.d = d,
                        !.mode = IF IsComplex(d)
                                 THEN (IF @ = "log10(Abs)" THEN "Abs" ELSE @)
                                 ELSE (IF @ = "Phase" THEN "Abs" ELSE @),
                        !.options = IF IsComplex(d) THEN {"Abs", "Phase"}
                                    ELSE {"Abs", "log10(Abs)"}]
        up == OnUpdatePlot([w1 EXCEPT !.threshold = t2, !.range = r2])
    IN  IF t1.err # "none" \/ r1.err # "none"
        THEN [w |-> [w1 EXCEPT !.obs = @ \ {"threshold", "colormap_range"}],
              extractions |-> 0, setdata |-> 1, raised |-> "TraitError",
              printed |-> {}]
        ELSE [up EXCEPT !.setdata = 1]

\* variant of OnChangeType that reloads the volume on every change
OnChangeType_Reloads(w, old, new) == SetData(w, w.d, FALSE, 0)

\* on_change_type for a change of value from old to new (w.mode is new)
OnChangeType(w, old, new) ==
    LET isLog(x) == x = "log10(Abs)"
        out == SetData(w, w.d0, TRUE, Pow10(w.threshold.value))
        again == OnUpdatePlot(out.w)
    IN  IF isLog(old) /\ ~isLog(new)
        THEN IF out.raised # "none" THEN out
             ELSE [again EXCEPT !.extractions = @ + out.extractions,
                                !.setdata = out.setdata,
                                !.printed = @ \cup out.printed]
        ELSE IF isLog(new) /\ ~isLog(old)
        THEN SetData([w EXCEPT !.d0 = w.d], [w.d EXCEPT !.logs = @ + 1], TRUE,
                     Log10(w.threshold.value))
        ELSE OnUpdatePlot(w)

(***************************************************************************)
(* ThreeDViewer: construction and control events                           *)
(***************************************************************************)
NoViewCall == [event |-> "none", control |-> "", observed |-> FALSE,
               extractions |-> 0, setdata |-> 0, raised |-> "none", printed |-> {}]

ViewStart ==
    /\ viewer = NewViewer
    /\ vcall = NoViewCall
    /\ nview = 0

\* line 301: on_update_plot once more, on the viewer set_data left
UpdateAgain(out) ==
    LET again == OnUpdatePlot(out.w)
    IN  IF out.raised # "none" THEN out
        ELSE [again EXCEPT !.extractions = @ + out.extractions,
                           !.setdata = out.setdata,
                           !.printed = @ \cup out.printed]

\* the constructor's body after the widgets are created: set_data (line
\* 293), evaluated once, then line 301
Construct(name) ==
    CHOOSE r \in {UpdateAgain(out) :
                    out \in {SetData(NewViewer, [name |-> name, logs |-> 0], FALSE, 0)}} :
        TRUE

\* ThreeDViewer(array): lines 281-301
ViewerInit ==
    /\ nview < MaxViewEvents
    /\ viewer.d = NoVolume
    /\ \E name \in VolumeNames :
          \E r \in {Construct(name)} :
              /\ viewer' = r.w
              /\ vcall' = [event |-> "init", control |-> "", observed |-> TRUE,
                           extractions |-> r.extractions, setdata |-> r.setdata,
                           raised |-> r.raised, printed |-> r.printed]
    /\ nview' = nview + 1
    /\ UNCHANGED <<metaVars, yamlVars, plotVars, imageVars, prepVars>>

\* the values a user gives to the controls observed by on_update_plot, each
\* validated by its widget
Changes(w) ==
    {[control |-> "threshold", w |-> [w EXCEPT !.threshold = SliderSetValue(@, t)]] :
        t \in {5, 25, 60}}
    \cup {[control |-> "colormap", w |-> [w EXCEPT !.colormap = c]] :
             c \in {"Jet", "Gray"}}
    \cup {[control |-> "colormap_range",
           w |-> [w EXCEPT !.range = RangeSetValue(@, v[1], v[2])]] :
             v \in {<<0, 10>>, <<5, 20>>}}
    \cup {[control |-> "clipx", w |-> [w EXCEPT !.clip.x = 1 - @]],
          [control |-> "clipy", w |-> [w EXCEPT !.clip.y = 1 - @]],
          [control |-> "clipz", w |-> [w EXCEPT !.clip.z = 1 - @]],
          [control |-> "toggle_plane", w |-> [w EXCEPT !.plane = ~@]]}
    \cup {[control |-> "clipdist",
           w |-> [w EXCEPT !.dist = RangeSetValue(@, v[1], v[2])]] :
             v \in {<<-10, 30>>, <<3, 30>>, <<20, 30>>}}

\* a control changes value: its observer, if registered, runs on_update_plot
ChangeValue ==
    /\ nview < MaxViewEvents
    /\ viewer.d # NoVolume
    /\ \E c \in Changes(viewer) :
          /\ c.w # viewer
          /\ \E r \in {IF c.control \in viewer.obs THEN OnUpdatePlot(c.w)
                        ELSE [w |-> c.w, extractions |-> 0, setdata |-> 0,
                              raised |-> "none", printed |-> {}]} :
                /\ viewer' = r.w
                /\ vcall' = [event |-> "value", control |-> c.control,
                             observed |-> c.control \in viewer.obs,
                             extractions |-> r.extractions, setdata |-> r.setdata,
                             raised |-> r.raised, printed |-> r.printed]
    /\ nview' = nview + 1
    /\ UNCHANGED <<metaVars, yamlVars, plotVars, imageVars, prepVars>>

\* toggle_phase changes value: its observer runs on_change_type
ChangeType ==
    /\ nview < MaxViewEvents
    /\ viewer.d # NoVolume
    /\ \E new \in viewer.options \ {viewer.mode} :
          \E r \in {OnChangeType([viewer EXCEPT !.mode = new], viewer.mode, new)} :
              /\ viewer' = r.w
              /\ vcall' = [event |-> "type", control |-> "toggle_phase",
                           observed |-> TRUE,
                           extractions |-> r.extractions, setdata |-> r.setdata,
                           raised |-> r.raised, printed |-> r.printed]
    /\ nview' = nview + 1
    /\ UNCHANGED <<metaVars, yamlVars, plotVars, imageVars, prepVars>>

(***************************************************************************)
(* ThreeDViewer: the rotation timer (tornado PeriodicCallback)             *)
(***************************************************************************)
\* line 549: one tick turns the camera by 2.5 / 2 degrees around its up
\* vector, so 288 ticks make a full turn
TurnSteps == 288

\* PeriodicCallback.start(): the timer is marked running and a timeout is
\* scheduled 50 ms ahead; stop(): the mark is cleared and the scheduled
\* timeout removed
TimerStart(t) == [t EXCEPT !.running = TRUE, !.timeouts = @ + 1]
TimerStop(t) == [t EXCEPT !.running = FALSE,
                          !.timeouts = IF @ > 0 THEN @ - 1 ELSE 0]

\* variant of OnAnimate that starts the timer whatever the toggle says
OnAnimate_NeverStops(w) ==
    [w EXCEPT !.pcb = TimerStart([@ EXCEPT !.made = TRUE,
                                           !.created = IF w.pcb.made THEN @ ELSE 1])]

\* variant of OnAnimate that makes a new timer at every event and leaves
\* the timeout of the old one scheduled
OnAnimate_NewTimerEachTime(w) ==
    LET t == [w.pcb EXCEPT !.made = TRUE, !.created = @ + 1]
    IN  [w EXCEPT !.pcb = IF w.rotate THEN TimerStart(t)
                          ELSE [t EXCEPT !.running = FALSE]]

\* on_animate, lines 534-539: the timer is created on the first event and
\* started or stopped after the value of the toggle
OnAnimate(w) ==
    LET t == IF w.pcb.made THEN w.pcb
             ELSE [w.pcb EXCEPT !.made = TRUE, !.created = @ + 1]
    IN  [w EXCEPT !.pcb = IF w.rotate THEN TimerStart(t) ELSE TimerStop(t)]

\* variant of CallbackRotate that also drops the meshes of the figure
CallbackRotate_ClearsMeshes(w) ==
    [w EXCEPT !.camera = (@ + 1) % TurnSteps, !.meshes = <<>>]

\* callback_rotate, lines 547-552: the camera position is turned by one
\* angular step
CallbackRotate(w) == [w EXCEPT !.camera = (@ + 1) % TurnSteps]

\* toggle_rotate changes value: its observer runs on_animate
Animate ==
    /\ nview < MaxViewEvents
    /\ viewer.d # NoVolume
    /\ viewer' = OnAnimate([viewer EXCEPT !.rotate = ~@])
    /\ vcall' = [NoViewCall EXCEPT !.event = "animate",
                                   !.control = "toggle_rotate",
                                   !.observed = TRUE]
    /\ nview' = nview + 1
    /\ UNCHANGED <<metaVars, yamlVars, plotVars, imageVars, prepVars>>

\* a scheduled timeout of the timer fires: the callback runs if the timer
\* is still marked running, and the next timeout is scheduled
Tick ==
    /\ nview < MaxViewEvents
    /\ viewer.pcb.timeouts > 0
    /\ viewer' = IF viewer.pcb.running THEN CallbackRotate(viewer)
                  ELSE [viewer EXCEPT !.pcb.timeouts = @ - 1]
    /\ vcall' = [NoViewCall EXCEPT !.event = "tick",
                                   !.observed = viewer.pcb.running]
    /\ nview' = nview + 1
    /\ UNCHANGED <<metaVars, yamlVars, plotVars, imageVars, prepVars>>

(***************************************************************************)
(* initialize_preprocessing (control_preprocess.py)                        *)
(***************************************************************************)
\* names that the function and its click handler use and that no import of
\* the module binds (lines 1-30)
FreeNames == {"literal_eval", "gutil", "Button", "Layout", "clear_output",
              "ConfigParser", "run_preprocessing"}

\* the names bound in the module's namespace when the function runs: none
\* of them, or all of them (ast.literal_eval, ipywidgets, IPython, bcdi and
\* gwaihir.utilities)
Namespaces == {{}, FreeNames}

\* the use of a name: NameError when it is not bound
Lookup(ns, name) == IF name \in ns THEN "none" ELSE "NameError"

\* lines 627-635
ListParameters == <<"bragg_peak", "custom_images", "fix_size", "pad_size",
                    "roi_detector", "direct_beam", "dirbeam_detector_angles">>
TupleParameters == <<"phasing_binning", "preprocessing_binning", "beam_direction",
                     "sample_offsets", "sample_inplane", "sample_outofplane">>
DictParameters == <<"actuators", "custom_motors">>

\* lines 676-686
FileParameters == {"background_file", "hotpixels_file", "flatfield_file",
                   "specfile_name"}

TextParameters == Range(ListParameters) \cup Range(TupleParameters)
                    \cup Range(DictParameters)

Attributes == TextParameters \cup FileParameters \cup {"custom_scan", "custom_monitor"}

\* values of the Dataset attributes: a string, None, a list, a tuple, a dict
Str(text) == [t |-> "str", s |-> IF text = "" THEN <<>> ELSE <<text>>]
PyNone == [t |-> "None"]
PyList(e) == [t |-> "list", e |-> e]
PyTuple(e) == [t |-> "tuple", e |-> e]
PyDict(n) == [t |-> "dict", n |-> n]

\* ast.literal_eval of the texts a user may type: the value of a literal,
\* ValueError for a well-formed expression that is not a literal,
\* SyntaxError for a text that is not an expression
LiteralEval(ns, text) ==
    IF Lookup(ns, "literal_eval") # "none"
    THEN [err |-> "NameError", v |-> PyNone]
    ELSE IF text = "[7]" THEN [err |-> "none", v |-> PyList(<<[t |-> "int", n |-> 7]>>)]
    ELSE IF text = "(7, 12)"
    THEN [err |-> "none",
          v |-> PyTuple(<<[t |-> "int", n |-> 7], [t |-> "int", n |-> 12]>>)]
    ELSE IF text = "{'a': 7}" THEN [err |-> "none", v |-> PyDict(1)]
    ELSE IF text = "{}" THEN [err |-> "none", v |-> PyDict(0)]
    ELSE IF text = "[a]" THEN [err |-> "ValueError", v |-> PyNone]
    ELSE [err |-> "SyntaxError", v |-> PyNone]

\* what an empty text becomes in each group (lines 640, 650, 660)
EmptyValue(group) ==
    IF group = "list" THEN PyList(<<>>)
    ELSE IF group = "tuple" THEN PyTuple(<<>>)
    ELSE PyNone

Message(msg, group, p) == [msg |-> msg, group |-> group, p |-> p]

\* lines 637-668, one try block: the parameters of a group in order, from
\* the i-th on; ValueError ends the loop and is reported through
\* gutil.hash_print, any other exception leaves the block
RECURSIVE CoerceGroup(_, _, _, _, _)
CoerceGroup(ns, d, params, group, i) ==
    IF i > Len(params) THEN [d |-> d, raised |-> "none", printed |-> {}]
    ELSE LET p == params[i]
             text == IF d[p].s = <<>> THEN "" ELSE d[p].s[1]
             r == LiteralEval(ns, text)
             v == IF group = "dict" /\ r.v = PyDict(0) THEN PyNone ELSE r.v
         IN  IF text = ""
             THEN CoerceGroup(ns, [d EXCEPT ![p] = EmptyValue(group)],
                              params, group, i + 1)
             ELSE IF r.err = "none"
             THEN CoerceGroup(ns, [d EXCEPT ![p] = v], params, group, i + 1)
             ELSE IF r.err = "ValueError"
             THEN [d |-> d, raised |-> Lookup(ns, "gutil"),
                   printed |-> IF "gutil" \in ns
                               THEN {Message("Wrong syntax", group, p)} ELSE {}]
             ELSE [d |-> d, raised |-> r.err, printed |-> {}]

\* lines 670-686: custom_images and custom_monitor without custom scans,
\* and the empty file names, become None
Normalize(d) ==
    [a \in Attributes |->
        IF ~d["custom_scan"].b /\ a \in {"custom_images", "custom_monitor"} THEN PyNone
        ELSE IF a \in FileParameters /\ d[a] = Str("") THEN PyNone
        ELSE d[a]]

\* the whole call on a viewer-less interface p: the attributes, the
\* exception that leaves the call, the messages printed, the run button
InitializePreprocessing(p, init_para, texts, custom_scan, emptyFiles) ==
    LET ns == p.ns
        d0 == [a \in Attributes |->
                 IF a \in FileParameters THEN Str(IF a \in emptyFiles THEN "" ELSE "f.npz")
                 ELSE IF a = "custom_scan" THEN [t |-> "bool", b |-> custom_scan]
                 ELSE IF a = "custom_monitor" THEN Str("m")
                 ELSE Str(texts[a])]
        g1 == CoerceGroup(ns, d0, ListParameters, "list", 1)
        g2 == CoerceGroup(ns, g1.d, TupleParameters, "tuple", 1)
        g3 == CoerceGroup(ns, g2.d, DictParameters, "dict", 1)
        out(d, raised, printed, normalized, button) ==
            [p EXCEPT !.event = "init", !.ds = d, !.raised = raised,
                      !.printed = printed, !.normalized = normalized,
                      !.runButton = button, !.steps = <<>>, !.args = <<>>,
                      !.runs = 0]
    IN  IF ~init_para
        THEN \* lines 871-874
             IF Lookup(ns, "clear_output") # "none"
             THEN out(p.ds, "NameError", {}, FALSE, p.runButton)
             ELSE [out(p.ds, "none", {Message("Cleared window.", "", "")}, FALSE, FALSE)
                     EXCEPT !.saveButton = FALSE]
        ELSE IF g1.raised # "none" THEN out(g1.d, g1.raised, g1.printed, FALSE, p.runButton)
        ELSE IF g2.raised # "none"
        THEN out(g2.d, g2.raised, g1.printed \cup g2.printed, FALSE, p.runButton)
        ELSE IF g3.raised # "none"
        THEN out(g3.d, g3.raised, g1.printed \cup g2.printed \cup g3.printed,
                 FALSE, p.runButton)
        ELSE IF Lookup(ns, "Button") # "none"
        THEN out(Normalize(g3.d), "NameError",
                 g1.printed \cup g2.printed \cup g3.printed, TRUE, p.runButton)
        ELSE out(Normalize(g3.d), "none",
                 g1.printed \cup g2.printed \cup g3.printed
                   \cup {Message("Parameters initialized...", "", "")}, TRUE, TRUE)

\* "config_preprocessing.yml"
ConfigName == <<"c", "o", "n", "f", "i", "g", "_", "p", "r", "e", "p", "r", "o",
                "c", "e", "s", "s", "i", "n", "g", ".", "y", "m", "l">>

\* self.preprocessing_folder: lines 720, 814 and 844 append a file name to
\* it directly, it ends with "/"
Folders == {<<"d", Slash>>, <<"m", "y", Slash>>, <<"d", Slash, "m", "y", Slash>>,
            <<Slash, "d", Slash>>}

\* the steps of a click, in the order they happen
StepWrite == "config_written"
StepLoad == "arguments_loaded"
StepRun == "run_called"
StepSave == "save_displayed"

\* lines 719-808: the keyword arguments of the config file (the scan number
\* and one parameter of the list and tuple groups)
PrepKwargs(p) ==
    <<[k |-> "scans", v |-> [t |-> "int", n |-> 7]],
      [k |-> "fix_size", v |-> p.ds["fix_size"]],
      [k |-> "preprocessing_binning", v |-> p.ds["preprocessing_binning"]]>>

\* ConfigParser(config_file).load_arguments() and line 824: the arguments
\* of the file, and the time of the click
LoadArguments(lines) ==
    [i \in 1..Len(lines) |-> ParseLine(lines[i])]
      \o <<[k |-> "time", v |-> [t |-> "str", s |-> <<"now">>]]>>

\* variant of the handler that displays the save-metadata button before it
\* calls run_preprocessing
ActionButtonRunPreprocess_SavesFirst(p, fs, written, folder, parses, runs) ==
    LET y == CreateYamlFile(fs, written, folder \o ConfigName, PrepKwargs(p))
        config_file == folder \o <<Slash>> \o ConfigName
        found == {f \in y.cfg : Norm(f.fname) = Norm(config_file)}
        base == [p EXCEPT !.event = "click", !.folder = folder, !.saveButton = FALSE,
                          !.steps = <<>>, !.args = <<>>, !.runs = 0,
                          !.outcome = "none", !.raised = "none", !.printed = {}]
        args == LoadArguments((CHOOSE f \in found : TRUE).lines)
    IN  IF y.call.raised # "none"
        THEN [fs |-> y.fs, cfg |-> y.cfg, call |-> y.call,
              p |-> [base EXCEPT !.raised = y.call.raised]]
        ELSE IF found = {} \/ ~parses
        THEN [fs |-> y.fs, cfg |-> y.cfg, call |-> y.call,
              p |-> [base EXCEPT !.steps = <<StepWrite>>,
                                 !.raised = IF found = {} THEN "FileNotFoundError"
                                            ELSE "ParserError"]]
        ELSE [fs |-> y.fs, cfg |-> y.cfg, call |-> y.call,
              p |-> [base EXCEPT !.steps = <<StepWrite, StepLoad, StepSave, StepRun>>,
                                 !.args = args, !.runs = 1, !.saveButton = TRUE,
                                 !.outcome = IF runs THEN "returned" ELSE "raised",
                                 !.raised = IF runs THEN "none" ELSE "RunError",
                                 !.printed = IF runs
                                             THEN {Message("End of script", "", "")}
                                             ELSE {}]]

\* lines 698-866, the handler of the run-preprocessing button: parses and
\* runs tell whether the config parser and the preprocessing entry point
\* return (they are code of the bcdi package)
ActionButtonRunPreprocess(p, fs, written, folder, parses, runs) ==
    LET y == CreateYamlFile(fs, written, folder \o ConfigName, PrepKwargs(p))
        config_file == folder \o <<Slash>> \o ConfigName
        found == {f \in y.cfg : Norm(f.fname) = Norm(config_file)}
        base == [p EXCEPT !.event = "click", !.folder = folder, !.saveButton = FALSE,
                          !.steps = <<>>, !.args = <<>>, !.runs = 0,
                          !.outcome = "none", !.raised = "none", !.printed = {}]
        args == LoadArguments((CHOOSE f \in found : TRUE).lines)
    IN  IF y.call.raised # "none"
        THEN [fs |-> y.fs, cfg |-> y.cfg, call |-> y.call,
              p |-> [base EXCEPT !.raised = y.call.raised]]
        ELSE IF found = {} \/ ~parses
        THEN [fs |-> y.fs, cfg |-> y.cfg, call |-> y.call,
              p |-> [base EXCEPT !.steps = <<StepWrite>>,
                                 !.raised = IF found = {} THEN "FileNotFoundError"
                                            ELSE "ParserError"]]
        ELSE IF ~runs
        THEN [fs |-> y.fs, cfg |-> y.cfg, call |-> y.call,
              p |-> [base EXCEPT !.steps = <<StepWrite, StepLoad, StepRun>>,
                                 !.args = args, !.runs = 1, !.outcome = "raised",
                                 !.raised = "RunError"]]
        ELSE [fs |-> y.fs, cfg |-> y.cfg, call |-> y.call,
              p |-> [base EXCEPT !.steps = <<StepWrite, StepLoad, StepRun, StepSave>>,
                                 !.args = args, !.runs = 1, !.outcome = "returned",
                                 !.saveButton = TRUE,
                                 !.printed = {Message("End of script", "", "")}]]

\* the texts of the parameter widgets: every parameter well-formed or every
\* parameter empty, and at most one parameter replaced by "[a]" (not a
\* literal), by "[7" (not an expression), by "" or by "{}"
GoodText(a) ==
    IF a \in Range(ListParameters) THEN "[7]"
    ELSE IF a \in Range(TupleParameters) THEN "(7, 12)"
    ELSE "{'a': 7}"
BaseTexts == {[a \in TextParameters |-> GoodText(a)], [a \in TextParameters |-> ""]}
EditedParameters == {"bragg_peak", "dirbeam_detector_angles", "phasing_binning",
                     "sample_outofplane", "actuators", "custom_motors"}
MalformedTexts == {"[a]", "[7"}
PrepTexts ==
    BaseTexts \cup {[b EXCEPT ![a] = t] : b \in BaseTexts, a \in EditedParameters,
                                          t \in MalformedTexts \cup {"", "{}"}}

NoPrepInput == [init_para |-> FALSE, texts |-> [a \in TextParameters |-> ""],
                custom_scan |-> FALSE, emptyFiles |-> {}]

\* the interface before the first call, in a namespace ns
NoPrep(ns) ==
    [ns |-> ns, event |-> "none", input |-> NoPrepInput,
     ds |-> [a \in Attributes |-> PyNone], raised |-> "none", printed |-> {},
     normalized |-> FALSE, runButton |-> FALSE, saveButton |-> FALSE,
     steps |-> <<>>, args |-> <<>>, runs |-> 0, outcome |-> "none",
     folder |-> <<>>]

PrepStart ==
    /\ prep \in {NoPrep(ns) : ns \in Namespaces}
    /\ nprep = 0

InitializePreprocessingCall ==
    /\ nprep < MaxPrepEvents
    /\ \E init_para \in BOOLEAN, texts \in PrepTexts, custom_scan \in BOOLEAN,
          emptyFiles \in {{}, FileParameters} :
          prep' = [InitializePreprocessing(prep, init_para, texts, custom_scan,
                                           emptyFiles)
                     EXCEPT !.input = [init_para |-> init_para, texts |-> texts,
                                       custom_scan |-> custom_scan,
                                       emptyFiles |-> emptyFiles]]
    /\ nprep' = nprep + 1
    /\ UNCHANGED <<metaVars, yamlVars, plotVars, imageVars, viewVars>>

ClickRunPreprocess ==
    /\ nprep < MaxPrepEvents
    /\ prep.runButton
    /\ \E folder \in Folders, parses \in BOOLEAN, runs \in BOOLEAN :
          \E r \in {ActionButtonRunPreprocess(prep, dirs, cfg, folder, parses, runs)} :
              /\ prep' = r.p
              /\ dirs' = r.fs
              /\ cfg' = r.cfg
              /\ ycall' = r.call
    /\ nprep' = nprep + 1
    /\ UNCHANGED <<metaVars, nyaml, plotVars, imageVars, viewVars>>

(***************************************************************************)
(* Specifications                                                          *)
(***************************************************************************)
MetaIdle ==
    /\ files = [p \in Paths |-> Absent]
    /\ ds = [a \in DsAttrs |-> 0]
    /\ call = NoCall
    /\ prev = [scan |-> 0, csv |-> NoPath, wrote |-> NoPath]
    /\ ncalls = MaxCalls

YamlIdle ==
    /\ dirs = [exist |-> {Root, Cwd}, readonly |-> {}]
    /\ cfg = {}
    /\ ycall = NoYamlCall
    /\ nyaml = MaxYamlCalls

PlotIdle ==
    /\ plotter = NoPlotter
    /\ pcall = NoPlotCall
    /\ nplot = MaxPlotCalls

ImageIdle ==
    /\ figs = 0
    /\ icall = NoImageCall
    /\ nimage = MaxImageCalls

ViewIdle ==
    /\ viewer = NewViewer
    /\ vcall = NoViewCall
    /\ nview = MaxViewEvents

PrepIdle ==
    /\ prep = NoPrep({})
    /\ nprep = MaxPrepEvents

MetaInit == MetaStart /\ YamlIdle /\ PlotIdle /\ ImageIdle /\ ViewIdle /\ PrepIdle
MetaNext == ExtractMetadataCall
MetaSpec == MetaInit /\ [][MetaNext]_vars

YamlInit == YamlStart /\ MetaIdle /\ PlotIdle /\ ImageIdle /\ ViewIdle /\ PrepIdle
YamlNext == CreateYamlFileCall
YamlSpec == YamlInit /\ [][YamlNext]_vars

PlotInit == PlotStart /\ MetaIdle /\ YamlIdle /\ ImageIdle /\ ViewIdle /\ PrepIdle
PlotNext == PlotterInit \/ PlotterReload
PlotSpec == PlotInit /\ [][PlotNext]_vars

ImageInit == ImageStart /\ MetaIdle /\ YamlIdle /\ PlotIdle /\ ViewIdle /\ PrepIdle
ImageNext == Plot2dImageCall
ImageSpec == ImageInit /\ [][ImageNext]_vars

ViewInit == ViewStart /\ MetaIdle /\ YamlIdle /\ PlotIdle /\ ImageIdle /\ PrepIdle
ViewNext == ViewerInit \/ ChangeValue \/ ChangeType
ViewSpec == ViewInit /\ [][ViewNext]_vars

\* the viewer with its rotation timer
RotateNext == ViewerInit \/ ChangeValue \/ ChangeType \/ Animate \/ Tick
RotateSpec == ViewInit /\ [][RotateNext]_vars

\* the preprocessing tab: the disk of create_yaml_file, no other call of it
PrepInit ==
    /\ PrepStart
    /\ dirs \in InitDisks
    /\ cfg = {}
    /\ ycall = NoYamlCall
    /\ nyaml = MaxYamlCalls
    /\ MetaIdle /\ PlotIdle /\ ImageIdle /\ ViewIdle
PrepNext == InitializePreprocessingCall \/ ClickRunPreprocess
PrepSpec == PrepInit /\ [][PrepNext]_vars

(***************************************************************************)
(* Properties of extract_metadata                                          *)
(***************************************************************************)
RowsOf(path, scan_nb) ==
    {i \in 1..Len(files[path].rows) : ParseInt(files[path].rows[i].scan) = scan_nb}

\* C1: two calls with the same scan number and the same metadata_csv_file
\* leave exactly one row for that scan in the log that was written, and the
\* row holds the values and columns of the second call.
C1_UpsertLeavesOneRow ==
    (ncalls >= 2 /\ call.wrote # NoPath /\ prev.scan = call.scan /\ prev.csv = call.csv)
    => /\ Cardinality(RowsOf(call.wrote, call.scan)) = 1
       /\ \A i \in RowsOf(call.wrote, call.scan) :
             /\ files[call.wrote].rows[i].val = call.val
             /\ files[call.wrote].rows[i].cols = call.cols

\* both calls upserted the same scan in the user's log, which keeps the row
\* of the other scan
C1_Witness ==
    /\ ncalls = 2 /\ prev.wrote = UserPath /\ call.wrote = UserPath
    /\ prev.scan = call.scan /\ prev.csv = call.csv
    /\ Len(files[UserPath].rows) = 2
    /\ RowsOf(UserPath, call.scan) = {2}

C2_RequiredFields == {"q", "qnorm", "dist_plane", "bragg_inplane",
                      "bragg_outofplane", "bragg_peak"}

\* C2: a call on a result file that lacks a required field raises
\* NoSuchNodeError, writes no log and leaves every Dataset attribute as it was.
C2_MissingRequiredFailsWhole ==
    [][~(C2_RequiredFields \subseteq call'.present)
       => /\ call'.raised = "NoSuchNodeError"
          /\ call'.wrote = NoPath
          /\ files' = files
          /\ ds' = ds]_vars

\* a second call with a Dataset, on a file without bragg_peak, after a first
\* call that mirrored its values on the Dataset
C2_Witness ==
    /\ ncalls = 2 /\ call.withDs /\ "bragg_peak" \notin call.present
    /\ call.raised = "NoSuchNodeError"
    /\ ds["bragg_peak"] = 1

C3_OptionalFields == {"COM_rocking_curve", "interp_fwhm", "tilt_values"}

\* C3: when the required fields are present and an optional field is absent,
\* no NoSuchNodeError (and no unbound tilt_angle) comes out of the call, with
\* or without a Dataset, and unless the log has no scan column or rd.DataSet
\* fails, the row with the nine required columns is in the log written.
C3_OptionalAbsentNotFatal ==
    (/\ ncalls >= 1
     /\ C2_RequiredFields \subseteq call.present
     /\ ~(C3_OptionalFields \subseteq call.present))
    => /\ call.raised \notin {"NoSuchNodeError", "UnboundLocalError"}
       /\ call.raised \notin {"KeyError", "OSError"}
          => /\ call.wrote # NoPath
             /\ RowsOf(call.wrote, call.scan) # {}
             /\ \A i \in RowsOf(call.wrote, call.scan) :
                   /\ files[call.wrote].rows[i].val = call.val
                   /\ RequiredCols \subseteq files[call.wrote].rows[i].cols

\* a call with a Dataset on a file that has COM_rocking_curve but not
\* interp_fwhm: the row is written with the first optional column only
C3_Witness ==
    /\ ncalls >= 1 /\ call.withDs
    /\ C2_RequiredFields \subseteq call.present
    /\ "interp_fwhm" \notin call.present
    /\ call.wrote # NoPath
    /\ call.cols = RequiredCols \cup {"COM_rocking_curve"}
    /\ ds["q"] = call.val /\ ds["interp_fwhm"] = 0

\* C4: when read_csv fails on a path that does not exist or on a malformed
\* file, the call writes the extracted row alone to the default path and does
\* not raise.
C4_FallbackCreatesDefaultLog ==
    (ncalls >= 1 /\ call.csv # NoPath
       /\ call.readErr \in {"FileNotFoundError", "ValueError"})
    => /\ call.wrote = DefaultPath
       /\ files[DefaultPath] = Table(<<CsvRow(call.scan, call.val, call.cols)>>)
       /\ call.raised = "none"

\* C5: with a Dataset whose beamline equals "SIXS_2019" the secondary
\* extraction runs, an AttributeError in it is caught and the row is still
\* written; with any other beamline it does not run.
C5_SixsSecondaryExtraction ==
    (ncalls >= 1 /\ call.withDs
       /\ call.raised \notin {"NoSuchNodeError", "UnboundLocalError"})
    => /\ (call.beamline = "SIXS_2019") <=> call.sixsRan
       /\ call.sixsAttrErr => call.raised # "AttributeError"
       /\ (call.sixsAttrErr /\ call.raised \notin {"KeyError"}) => call.wrote # NoPath

(***************************************************************************)
(* Properties of create_yaml_file                                          *)
(***************************************************************************)
YamlSuffix(fname) ==
    EndsWith(fname, <<".", "y", "a", "m", "l">>) \/ EndsWith(fname, <<".", "y", "m", "l">>)

LinesAt(fname) == {f.lines : f \in {g \in cfg : g.fname = fname}}

\* C6: a call whose destination ends with neither .yaml nor .yml fails with
\* the format error (FileError in the code's words) and writes no config file
\* at that path.
C6_BadSuffixRaisesFormatError ==
    (nyaml >= 1 /\ ~YamlSuffix(ycall.fname))
    => /\ ycall.raised \in {"FormatError", "FileError"}
       /\ LinesAt(ycall.fname) = {}

\* every directory on the way to the parent directory of a path
Ancestors(fname) ==
    LET parent == IF LastSlash(fname) = 0 THEN Cwd ELSE Norm(Dirname(fname))
    IN  {[parent EXCEPT !.comps = SubSeq(parent.comps, 1, n)] : n \in 0..Len(parent.comps)}

\* C7: after a call on an accepted path, with no directory read-only, every
\* directory of the path's directory part exists, the real parent directory
\* included, and the call does not raise.
C7_ParentDirectoriesCreated ==
    (nyaml >= 1 /\ YamlSuffix(ycall.fname) /\ dirs.readonly = {})
    => /\ Ancestors(ycall.fname) \subseteq dirs.exist
       /\ ycall.raised = "none"

\* the elements of an array in row-major order
RECURSIVE Flatten(_)
Flatten(rows) == IF Len(rows) = 0 THEN <<>> ELSE Head(rows) \o Flatten(Tail(rows))

\* the rendering the claim states, by type
C8_Rendering(v) ==
    IF v.t = "str" THEN <<DQ>> \o v.s \o <<DQ>>
    ELSE IF v.t \in {"list", "tuple"}
    THEN IF Len(v.e) = 0 THEN <<"None">> ELSE ReprList(v.e)
    ELSE IF v.t = "array"
    THEN ReprList([i \in 1..Len(Flatten(v.rows)) |-> [t |-> "int", n |-> Flatten(v.rows)[i]]])
    ELSE ReprScalar(v)

\* C8: the file written holds one line "key: value" per keyword argument, in
\* argument order, each value rendered by its type: quoted string, bracketed
\* list, None for an empty list or tuple, a tuple as the list of its
\* elements, an array as the flat list of its elements.
C8_TypeDirectedRendering ==
    (nyaml >= 1 /\ ycall.wrote)
    => \A lines \in LinesAt(ycall.fname) :
          /\ Len(lines) = Len(ycall.kwargs)
          /\ \A i \in 1..Len(lines) :
                lines[i] = <<ycall.kwargs[i].k, ":", " ">> \o C8_Rendering(ycall.kwargs[i].v)

\* the value a round trip is to give back: the input, a tuple as a list, an
\* array as the list of its elements
C9_Expected(v) ==
    IF v.t = "tuple" THEN [t |-> "list", e |-> v.e]
    ELSE IF v.t = "array"
    THEN [t |-> "list",
          e |-> [i \in 1..Len(Flatten(v.rows)) |-> [t |-> "int", n |-> Flatten(v.rows)[i]]]]
    ELSE v

\* C9: re-parsing each generated line gives back the key and a value equal
\* to the input, a tuple as a list.
C9_RoundTrip ==
    (nyaml >= 1 /\ ycall.wrote)
    => \A lines \in LinesAt(ycall.fname) : \A i \in 1..Len(lines) :
          /\ ParseLine(lines[i]).k = ycall.kwargs[i].k
          /\ ParseLine(lines[i]).v = C9_Expected(ycall.kwargs[i].v)

(***************************************************************************)
(* Properties of Plotter.get_data_array                                    *)
(***************************************************************************)
\* C10: whatever the path and the plot mode, a call whose read fails raises
\* nothing: the failure is reported by a printed message, for the .npy,
\* .cxi, .h5 and .npz loaders and through the dispatch that follows.
C10_ReadFailureNeverPropagates ==
    (nplot >= 1 /\ pcall.ext \in {".npy", ".cxi", ".h5", ".npz"}
       /\ pcall.status \in {"missing", "wrongformat", "nodataset"})
    => /\ pcall.raised = "none"
       /\ pcall.msgs \cap {"could_not_load", "hdf5_hint"} # {}

\* C11: a .h5 dataset of shape (1, a, b, c) is loaded as an array of shape
\* (c, b, a) with out[k, j, i] = in[0, i, j, k] (leading axis dropped at
\* index 0, then axes 0 and 2 exchanged); a dataset of shape (a, b, c) is
\* loaded as (c, b, a) with out[k, j, i] = in[i, j, k].
C11_H5AxisOrder ==
    (nplot >= 1 /\ pcall.ext = ".h5" /\ pcall.status = "ok"
       /\ Len(pcall.shape) \in {3, 4})
    => LET s == pcall.shape
           n == Len(s)
           d == plotter.data
       IN  /\ plotter.exists /\ plotter.hasData
           /\ d.shape = <<s[n], s[n - 1], s[n - 2]>>
           /\ \A k \in 0..(s[n] - 1), j \in 0..(s[n - 1] - 1), i \in 0..(s[n - 2] - 1) :
                 d.at[<<k, j, i>>] = IF n = 4 THEN <<0, i, j, k>> ELSE <<i, j, k>>

C11_Witness ==
    /\ nplot >= 1 /\ pcall.ext = ".h5" /\ pcall.status = "ok"
    /\ pcall.shape = <<1, 2, 3, 4>>
    /\ plotter.data.shape = <<4, 3, 2>>
    /\ plotter.data.at[<<3, 2, 1>>] = <<0, 1, 2, 3>>

\* C12: after a load that succeeded, the viewer is started if and only if the
\* mode is "3D" and the loaded array has rank 3; mode "2D" calls plot_data,
\* mode "slices" calls plot_3d_slices, and every other combination of mode
\* and rank prints the summary and starts no view.
C12_DispatchByModeAndRank ==
    (nplot >= 1 /\ pcall.status = "ok"
       /\ pcall.ext \in {".npy", ".cxi", ".h5", ".npz"})
    => /\ (pcall.view = "ThreeDViewer") <=> (pcall.mode = "3D" /\ pcall.ndim = 3)
       /\ pcall.mode = "2D" => pcall.view = "plot_data"
       /\ pcall.mode = "slices" => pcall.view = "plot_3d_slices"
       /\ (pcall.mode \notin {"2D", "slices"} /\ ~(pcall.mode = "3D" /\ pcall.ndim = 3))
            => (pcall.view = "none" /\ "summary" \in pcall.msgs)
       /\ "summary" \in pcall.msgs => pcall.view = "none"

C12_Witness ==
    /\ nplot >= 1 /\ pcall.status = "ok" /\ pcall.ext = ".npz"
    /\ pcall.mode = "3D" /\ pcall.ndim = 4
    /\ pcall.view = "none" /\ "summary" \in pcall.msgs

(***************************************************************************)
(* Properties of plot_2d_image                                             *)
(***************************************************************************)
\* C13: plot_2d_image never lets a TypeError or ValueError of the drawing
\* library out: a TypeError on the first attempt gives exactly one retry on
\* the magnitude, and a scale incompatibility (ValueError), on the first
\* attempt or on the retry, ends the call with the printed warning and no
\* exception.
C13_NoDrawingErrorPropagates ==
    nimage >= 1
    => /\ icall.raised \notin {"TypeError", "ValueError"}
       /\ icall.first = "TypeError" => icall.attempts = 2
       /\ "ValueError" \in {icall.first, icall.retry}
            => (icall.raised = "none" /\ "log_warning" \in icall.msgs)

(***************************************************************************)
(* Properties of ThreeDViewer                                              *)
(***************************************************************************)
\* C14: after any sequence of control events, every control observed by
\* on_update_plot still has its observer, and a change of value of one of
\* them runs on_update_plot up to the isosurface extraction.
C14_EveryChangeRecomputes ==
    nview >= 1
    => /\ Controls \subseteq viewer.obs
       /\ vcall.event = "value" => vcall.extractions >= 1

\* C15: no exception raised during a recompute leaves the handler: it is
\* printed, and the figure keeps the meshes it had before the event.
C15_RecomputeErrorsCaught ==
    [][nview' > nview
         => /\ vcall'.raised = "none"
            /\ vcall'.printed # {} => viewer'.meshes = viewer.meshes]_vars

\* C16: a recompute whose threshold lies above the maximum of the magnitude
\* volume handed to the extraction raises nothing and leaves the figure
\* with one mesh that has no vertices and no faces.
C16_AboveMaximumGivesEmptyMesh ==
    LET m == Masked(Val(viewer.d), viewer.plane, ClipNormal(viewer.clip), viewer.dist)
    IN  (nview >= 1 /\ vcall.extractions >= 1
           /\ \A v \in Voxels : Lt(m[v], viewer.threshold.value))
        => /\ vcall.raised = "none"
           /\ Len(viewer.meshes) = 1
           /\ viewer.meshes[1].verts = {}
           /\ viewer.meshes[1].faces = {}

\* the settings of the clip normal and of the clip distance interval that
\* C17 compares
C17_ClipSettings ==
    {[clip |-> [x |-> c[1], y |-> c[2], z |-> c[3]],
      dist |-> [lo |-> i[1], hi |-> i[2], min |-> -10, max |-> 1000]] :
        c \in {0, 1} \X {0, 1} \X {-1, 1},
        i \in {<<-10, 1000>>, <<3, 8>>, <<20, 30>>}}

\* C17: while the clip-plane toggle is off, a recompute gives the same
\* outcome (vertices, faces and colours, or the same failure) for every
\* setting of the clip normal and of the clip distance interval.
C17_ClipIgnoredWhileOff ==
    (nview >= 1 /\ ~viewer.plane /\ vcall.extractions >= 1)
    => \A k \in C17_ClipSettings :
          LET r == OnUpdatePlot([viewer EXCEPT !.clip = k.clip, !.dist = k.dist])
          IN  /\ r.w.meshes = viewer.meshes
              /\ r.printed = vcall.printed
              /\ r.raised = "none"

C17_Witness ==
    /\ ~viewer.plane /\ vcall.event = "value" /\ vcall.control = "clipy"
    /\ vcall.extractions = 1 /\ vcall.printed = {}
    /\ viewer.clip = [x |-> 0, y |-> 0, z |-> 1]
    /\ Len(viewer.meshes) = 1 /\ viewer.meshes[1].verts # {}

\* C18: on a complex volume, a change of the colour mode between Phase and
\* Abs leaves the vertices and the faces of the displayed mesh, the
\* threshold, the clip controls and the volume as they were.
C18_ModeToggleKeepsGeometry ==
    [][(nview' > nview /\ vcall'.event = "type" /\ IsComplex(viewer.d))
         => /\ Len(viewer'.meshes) = Len(viewer.meshes)
            /\ \A i \in 1..Len(viewer.meshes) :
                  /\ viewer'.meshes[i].verts = viewer.meshes[i].verts
                  /\ viewer'.meshes[i].faces = viewer.meshes[i].faces
            /\ viewer'.threshold = viewer.threshold
            /\ viewer'.plane = viewer.plane
            /\ viewer'.clip = viewer.clip
            /\ viewer'.dist = viewer.dist
            /\ viewer'.d = viewer.d]_vars

C18_Witness ==
    /\ vcall.event = "type" /\ IsComplex(viewer.d) /\ viewer.mode = "Abs"
    /\ viewer.plane /\ vcall.extractions = 1 /\ vcall.printed = {}
    /\ Len(viewer.meshes) = 1
    /\ \E v \in viewer.meshes[1].verts : viewer.meshes[1].color[v].map = "Jet"

\* C19: after a change of the threshold or of a component of the clip
\* normal, the bounds of the clip distance slider are [min - 1, max + 1] of
\* the projections, onto the normalized clip normal, of the voxels that
\* reach the new threshold.
C19_ClipBoundsFollowThreshold ==
    [][(nview' > nview /\ vcall'.event = "value"
          /\ vcall'.control \in {"threshold", "clipx", "clipy", "clipz"})
         => LET cr == ClipRange(Val(viewer'.d), viewer'.threshold.value,
                                ClipNormal(viewer'.clip))
            IN  /\ cr.err = "none"
                /\ viewer'.dist.min = cr.min
                /\ viewer'.dist.max = cr.max]_vars

\* C20: after an event that ran set_data, the upper bounds of the threshold
\* slider and of the colormap range are the maximum magnitude of the volume,
\* the colormap range is [0, maximum], the threshold lies in [0, maximum],
\* and it is half the maximum after the initial load.
C20_SetDataFitsSliders ==
    (nview >= 1 /\ vcall.setdata >= 1)
    => LET top == MaxAbs(Val(viewer.d))
           half == IF top = NaN THEN NaN ELSE top \div 2
       IN  /\ viewer.threshold.max = top
           /\ viewer.range.max = top
           /\ viewer.range.lo = 0 /\ viewer.range.hi = top
           /\ viewer.threshold.value # NaN /\ top # NaN
           /\ 0 <= viewer.threshold.value /\ viewer.threshold.value <= top
           /\ vcall.event = "init" => viewer.threshold.value = half

(***************************************************************************)
(* Properties of the rotation timer                                        *)
(***************************************************************************)
\* C21: the camera position changes only in a tick that fires while the
\* rotate toggle is on; once the toggle is off no step changes it, and the
\* events of the toggle themselves leave it as it was.
C21_CameraMovesOnlyWhileRotating ==
    [][/\ viewer'.camera # viewer.camera
          => (vcall'.event = "tick" /\ viewer.rotate /\ viewer.pcb.running)
       /\ (~viewer.rotate /\ ~viewer'.rotate) => viewer'.camera = viewer.camera
       /\ (vcall'.event = "animate" /\ nview' > nview)
          => viewer'.camera = viewer.camera]_vars

C21_Witness ==
    /\ viewer.camera = 1 /\ ~viewer.rotate /\ vcall.event = "animate"
    /\ viewer.pcb.made /\ ~viewer.pcb.running /\ viewer.pcb.timeouts = 0

\* C29: the viewer makes at most one timer, on its first rotate event, with
\* at most one timeout scheduled, and after every rotate event the timer is
\* running exactly when the toggle is on.
C29_OneTimerFollowsToggle ==
    /\ viewer.pcb.created <= 1
    /\ viewer.pcb.made <=> viewer.pcb.created = 1
    /\ viewer.pcb.timeouts <= 1
    /\ viewer.pcb.made
         => /\ viewer.pcb.running <=> viewer.rotate
            /\ viewer.pcb.running <=> viewer.pcb.timeouts = 1
    /\ ~viewer.pcb.made => (~viewer.rotate /\ viewer.pcb.timeouts = 0)

C29_Witness ==
    /\ vcall.event = "animate" /\ ~viewer.rotate /\ viewer.camera = 0
    /\ viewer.pcb.created = 1 /\ ~viewer.pcb.running /\ viewer.pcb.timeouts = 0

\* C22: a rotation tick changes the camera position and nothing else of the
\* viewer (volume, controls, observers, meshes), so a recompute gives the
\* same outcome before and after it; a recompute, whether run for a change
\* of value or of colour mode, leaves the camera position as it was.
C22_TickAndRecomputeAreDisjoint ==
    [][/\ (nview' > nview /\ vcall'.event = "tick")
          => /\ viewer' = [viewer EXCEPT !.camera = viewer'.camera]
             /\ OnUpdatePlot(viewer').w.meshes = OnUpdatePlot(viewer).w.meshes
       /\ (nview' > nview /\ vcall'.event \in {"value", "type"})
          => /\ viewer'.camera = viewer.camera
             /\ viewer'.pcb = viewer.pcb
             /\ viewer'.rotate = viewer.rotate]_vars

C22_Witness ==
    /\ vcall.event = "value" /\ vcall.control = "threshold"
    /\ vcall.extractions = 1 /\ vcall.printed = {}
    /\ viewer.camera = 1 /\ viewer.rotate /\ viewer.pcb.running
    /\ Len(viewer.meshes) = 1 /\ viewer.meshes[1].verts # {}

(***************************************************************************)
(* Properties of the clip distance bounds and of the meshes                *)
(***************************************************************************)
\* the bounds C25 tries, in tenths: as old bounds of the slider and as new
\* bounds [tmpmin, tmpmax]
C25_Intervals ==
    {<<lo, hi>> \in {-30, -10, 0, 7, 17, 40, 1000} \X {-30, -10, 0, 7, 17, 40, 1000} :
        lo < hi}

\* C25: whatever the old bounds of the clip distance slider (those of the
\* viewer, or any interval tried) and the new bounds tmpmin < tmpmax, neither
\* assignment is rejected, the minimum does not exceed the maximum between
\* the two assignments, and the slider ends with the new bounds.
C25_ClipBoundsStayOrdered ==
    nview >= 1
    => \A new \in C25_Intervals :
          \A old \in {viewer.dist}
                     \cup {[lo |-> o[1], hi |-> o[2], min |-> o[1], max |-> o[2]] :
                              o \in C25_Intervals} :
              LET r == SetClipBounds(old, new[1], new[2])
              IN  /\ r.err = "none"
                  /\ r.mid.min <= r.mid.max
                  /\ r.mid.min <= r.mid.lo /\ r.mid.hi <= r.mid.max
                  /\ r.s.min = new[1] /\ r.s.max = new[2]

C25_Witness ==
    /\ viewer.plane /\ vcall.event = "value" /\ vcall.control = "threshold"
    /\ vcall.extractions = 1 /\ vcall.raised = "none"
    /\ viewer.dist.min = 7 /\ viewer.dist.max = 27

\* C26: the figure never holds more than one mesh; an event whose recompute
\* succeeds leaves exactly one mesh, the one a recompute of the resulting
\* state produces, and an event whose recompute fails or does not run
\* leaves the list as it was.
C26_MeshFullyReplaced ==
    [][/\ Len(viewer.meshes) <= 1 /\ Len(viewer'.meshes) <= 1
       /\ (nview' > nview /\ vcall'.extractions >= 1 /\ vcall'.printed = {}
             /\ vcall'.raised = "none")
          => /\ Len(viewer'.meshes) = 1
             /\ OnUpdatePlot(viewer').w.meshes = viewer'.meshes
       /\ (nview' > nview
             /\ (vcall'.extractions = 0 \/ vcall'.printed # {}
                   \/ vcall'.raised # "none"))
          => viewer'.meshes = viewer.meshes]_vars

C26_Witness ==
    /\ nview = 3 /\ vcall.event = "value" /\ vcall.control = "toggle_plane"
    /\ viewer.plane /\ vcall.extractions = 1 /\ vcall.printed = {}
    /\ viewer.threshold.value = 25
    /\ Len(viewer.meshes) = 1 /\ viewer.meshes[1].verts # {}

\* C28: every change of a control by the user (a value observed by
\* on_update_plot, or the colour mode) runs the isosurface extraction
\* exactly once.
C28_OneRecomputePerChange ==
    (nview >= 1 /\ vcall.event \in {"value", "type"}) => vcall.extractions = 1

(***************************************************************************)
(* Further properties of extract_metadata                                  *)
(***************************************************************************)
\* C27: after two calls made with the same metadata_csv_file argument for
\* two different scans, each of which wrote a log, the log written holds a
\* row for each of the two scans.
C27_LogKeepsEveryScan ==
    (/\ ncalls >= 2
     /\ prev.csv = call.csv /\ prev.scan # call.scan
     /\ prev.wrote # NoPath /\ call.wrote # NoPath)
    => /\ RowsOf(call.wrote, prev.scan) # {}
       /\ RowsOf(call.wrote, call.scan) # {}

\* C30: the local tilt_angle is read for the Dataset only in a call whose
\* first optional block bound it, on the files of the calls made and on
\* every other combination of present and absent optional nodes.
C30_TiltAngleBoundBeforeRead ==
    /\ call.tiltRead => call.tiltDefined
    /\ call.raised # "UnboundLocalError"
    /\ \A absent \in SUBSET Range(OptionalDsSteps) :
          LET present == AllNodes \ absent
              opt == OptionalDfBlock(present)
              mir == MirrorDataset(ds, call.val, present, opt.tiltDefined)
          IN  /\ mir.tiltRead => opt.tiltDefined
              /\ mir.raised = "none"
              /\ mir.tiltRead => mir.ds["tilt_angle"] = call.val

C30_Witness ==
    /\ ncalls = 2 /\ call.withDs /\ call.tiltRead /\ call.tiltDefined
    /\ call.present = AllNodes /\ ds["tilt_angle"] = 2
    /\ prev.wrote # NoPath

(***************************************************************************)
(* Properties of initialize_preprocessing                                  *)
(***************************************************************************)
GroupOf(a) ==
    IF a \in Range(ListParameters) THEN "list"
    ELSE IF a \in Range(TupleParameters) THEN "tuple"
    ELSE "dict"

\* the parameters whose text is not a literal of Python
Malformed(texts) == {a \in TextParameters : texts[a] \in MalformedTexts}

\* C23: a call of initialize_preprocessing (all its names bound) with a
\* malformed literal in one parameter group raises nothing and reports that
\* parameter; the parameters of the other groups are coerced to structured
\* values, and the empty file names are normalised to None.
C23_MalformedLiteralDoesNotAbort ==
    (prep.event = "init" /\ prep.input.init_para /\ prep.ns = FreeNames
       /\ Malformed(prep.input.texts) # {})
    => /\ prep.raised = "none"
       /\ \A m \in Malformed(prep.input.texts) :
             Message("Wrong syntax", GroupOf(m), m) \in prep.printed
       /\ \A a \in TextParameters :
             GroupOf(a) \notin {GroupOf(m) : m \in Malformed(prep.input.texts)}
             => prep.ds[a].t # "str"
       /\ \A a \in prep.input.emptyFiles : prep.ds[a] = PyNone

\* position of a step in the steps of the last click, 0 if it did not happen
StepIndex(s) ==
    IF \E i \in 1..Len(prep.steps) : prep.steps[i] = s
    THEN CHOOSE i \in 1..Len(prep.steps) : prep.steps[i] = s
    ELSE 0

\* C24: after a click of the run-preprocessing button, the preprocessing
\* entry point was called at most once, after the config file was written
\* and with the arguments parsed from the lines of that file; the
\* save-metadata button is displayed only after the call, and only when the
\* call returned; when the call raised, its error left the handler and no
\* save-metadata button is displayed.
C24_RunOrder ==
    prep.event = "click"
    => /\ prep.runs <= 1
       /\ (prep.runs = 1) <=> (StepIndex(StepRun) > 0)
       /\ StepIndex(StepRun) > 0
          => /\ 0 < StepIndex(StepWrite) /\ StepIndex(StepWrite) < StepIndex(StepRun)
             /\ ycall.wrote /\ ycall.fname = prep.folder \o ConfigName
             /\ \E f \in cfg :
                   /\ f.fname = ycall.fname
                   /\ f.lines = ConfigLines(PrepKwargs(prep))
                   /\ SubSeq(prep.args, 1, Len(prep.args) - 1)
                        = [i \in 1..Len(f.lines) |-> ParseLine(f.lines[i])]
       /\ prep.saveButton <=> (StepIndex(StepSave) > 0)
       /\ prep.saveButton
          => /\ prep.outcome = "returned"
             /\ StepIndex(StepRun) > 0 /\ StepIndex(StepRun) < StepIndex(StepSave)
       /\ prep.outcome = "raised"
          => prep.raised = "RunError" /\ prep.runs = 1 /\ ~prep.saveButton

\* a click whose preprocessing call returned: the config file of the click
\* holds the coerced parameters and the save-metadata button is displayed
C24_Witness ==
    /\ prep.event = "click" /\ prep.outcome = "returned" /\ prep.saveButton
    /\ prep.steps = <<StepWrite, StepLoad, StepRun, StepSave>>
    /\ prep.ds["fix_size"].t = "list" /\ Len(prep.args) = 4

====
